---- MODULE Spec2Model ----
(***************************************************************************)
(* Outliner editor (src/src/App.jsx, revision v13.39, lines 865-2107).     *)
(* The document is a tree of nodes {id, text, collapsed, children}; every  *)
(* handler of the component is one action.  A handler and the focus change *)
(* it defers with setTimeout(..., 0) form one action: intents run to       *)
(* completion before the next one is taken.                                *)
(***************************************************************************)
EXTENDS Integers, Sequences, FiniteSets, TLC

VARIABLES
  tree,               \* useState(state.tree)
  viewRootId,         \* useState: id of the zoomed node
  focusId,            \* useState: id of the node holding logical focus, NoId for null
  cursorGoal,         \* cursorGoalRef.current
  searchQuery,        \* useState('')
  matchIds,           \* useState([])
  currentMatchIndex,  \* useState(-1)
  lastFocus,          \* lastFocusRef.current
  skipBlur,           \* skipBlurRef.current
  draggedId,          \* useState(null)
  isAllExpanded,      \* useState(false)
  gen,                \* number of ids GENERATE_ID has handed out
  crashed,            \* an updater threw while rendering: React unmounted the App
  hist                \* the intents taken so far, each with the state it started from

vars == <<tree, viewRootId, focusId, cursorGoal, searchQuery, matchIds,
          currentMatchIndex, lastFocus, skipBlur, draggedId, isAllExpanded,
          gen, crashed, hist>>

\* ---- bounds of the exploration ------------------------------------------
MaxSteps == 2      \* intents per run
MaxGen == 4        \* ids GENERATE_ID may hand out per run
MaxCursor == 2     \* cursor offsets tried: 0..MaxCursor and the end of the text
MaxSearchSteps == 3  \* intents per run that stays in the search box
MaxZoomSteps == 3    \* intents per run that only zooms in and out

\* ---- ids ------------------------------------------------------------------
NoId == ""                     \* null / '' (both falsy in the source)
RootId == "root"
GenIds == <<"g1", "g2", "g3", "g4", "g5", "g6", "g7", "g8">>
StaleId == "zz"                \* an id no document ever holds

\* GENERATE_ID(): the g-th id handed out (assumed fresh, as Math.random is meant to be)
GENERATE_ID(g) == GenIds[g + 1]

\* ---- strings --------------------------------------------------------------
Min(a, b) == IF a < b THEN a ELSE b
Max(a, b) == IF a > b THEN a ELSE b

charAt(s, i) == SubSeq(s, i + 1, i + 1)            \* 0-based, "" outside
slice(s, from, to) == SubSeq(s, from + 1, to)       \* String.prototype.slice(from, to), 0 <= from
sliceFrom(s, from) == SubSeq(s, from + 1, Len(s))

includes(s, q) == \E i \in 0..(Len(s) - Len(q)) : slice(s, i, i + Len(q)) = q

isSpace(c) == c \in {" ", "\n", "\t", "\r"}          \* \s of the regexps, restricted to ASCII

RECURSIVE trimStart(_)
trimStart(s) == IF Len(s) > 0 /\ isSpace(charAt(s, 0)) THEN trimStart(sliceFrom(s, 1)) ELSE s
RECURSIVE trimEnd(_)
trimEnd(s) == IF Len(s) > 0 /\ isSpace(charAt(s, Len(s) - 1)) THEN trimEnd(slice(s, 0, Len(s) - 1)) ELSE s
trim(s) == trimEnd(trimStart(s))

\* number of consecutive "\n" at the start of s
RECURSIVE newlineRun(_)
newlineRun(s) == IF Len(s) > 0 /\ charAt(s, 0) = "\n" THEN 1 + newlineRun(sliceFrom(s, 1)) ELSE 0

\* text.replace(/\n{3,}/g, '\n\n'): each run of three or more newlines, left to right
RECURSIVE squeezeNewlines(_)
squeezeNewlines(s) ==
  IF ~includes(s, "\n\n\n") THEN s
  ELSE LET i == CHOOSE k \in 0..(Len(s) - 3) :
                  slice(s, k, k + 3) = "\n\n\n" /\ \A j \in 0..(k - 1) : slice(s, j, j + 3) # "\n\n\n"
           r == newlineRun(sliceFrom(s, i))
       IN slice(s, 0, i) \o "\n\n" \o squeezeNewlines(sliceFrom(s, i + r))

UpperCase == "ABCDEFGHIJKLMNOPQRSTUVWXYZ"
LowerCase == "abcdefghijklmnopqrstuvwxyz"
toLowerChar(c) ==
  IF \E i \in 0..25 : charAt(UpperCase, i) = c
  THEN charAt(LowerCase, CHOOSE i \in 0..25 : charAt(UpperCase, i) = c)
  ELSE c
\* String.prototype.toLowerCase, character by character (the halves keep the recursion shallow)
RECURSIVE toLowerCase(_)
toLowerCase(s) ==
  IF Len(s) <= 1 THEN toLowerChar(s)
  ELSE LET h == Len(s) \div 2 IN toLowerCase(slice(s, 0, h)) \o toLowerCase(sliceFrom(s, h))

endsWith(s, q) == Len(s) >= Len(q) /\ sliceFrom(s, Len(s) - Len(q)) = q
startsWith(s, q) == Len(s) >= Len(q) /\ slice(s, 0, Len(q)) = q

\* ---- arrays ---------------------------------------------------------------
\* Array.prototype.splice(start, deleteCount, ...items) on a 0-based start
splice(a, start, deleteCount, items) ==
  LET n == Len(a)
      st == IF start < 0 THEN Max(n + start, 0) ELSE Min(start, n)
      dc == Min(Max(deleteCount, 0), n - st)
  IN SubSeq(a, 1, st) \o items \o SubSeq(a, st + dc + 1, n)

\* a[i] of the source, i counted from 0
at0(a, i) == a[i + 1]

\* children.findIndex(c => c.id === id): 0-based, -1 when absent
findIndex(children, id) ==
  IF \E i \in 1..Len(children) : children[i].id = id
  THEN (CHOOSE i \in 1..Len(children) :
          /\ children[i].id = id
          /\ \A j \in 1..(i - 1) : children[j].id # id) - 1
  ELSE -1

\* ---- the tree -------------------------------------------------------------
Node(id, text, collapsed, children) ==
  [id |-> id, text |-> text, collapsed |-> collapsed, children |-> children]
Leaf(id, text) == Node(id, text, FALSE, <<>>)

NotFound == <<0>>     \* no path: child positions start at 1

\* position of the first node, in pre-order, whose id is targetId: the child
\* positions from n down to it (what the object references of the source denote)
RECURSIVE pathOf(_, _)
RECURSIVE pathIn(_, _, _)
pathOf(n, targetId) == IF n.id = targetId THEN <<>> ELSE pathIn(n.children, 1, targetId)
pathIn(children, i, targetId) ==
  IF i > Len(children) THEN NotFound
  ELSE LET result == pathOf(children[i], targetId)
       IN IF result # NotFound THEN <<i>> \o result ELSE pathIn(children, i + 1, targetId)

RECURSIVE nodeAt(_, _)
nodeAt(n, p) == IF p = <<>> THEN n ELSE nodeAt(n.children[Head(p)], Tail(p))

RECURSIVE replaceAt(_, _, _)
replaceAt(n, p, m) ==
  IF p = <<>> THEN m
  ELSE [n EXCEPT !.children[Head(p)] = replaceAt(@, Tail(p), m)]

Front(p) == SubSeq(p, 1, Len(p) - 1)

\* findNodeAndParent(root, targetId): null, or {node, parent} (parent null for root itself)
findNodeAndParent(root, targetId) ==
  LET p == pathOf(root, targetId) IN
  IF p = NotFound THEN [found |-> FALSE, hasParent |-> FALSE, path |-> NotFound]
  ELSE [found |-> TRUE, hasParent |-> p # <<>>, path |-> p]

\* findPath(root, targetId): the ids of the nodes from root down to targetId, <<>> for null
findPath(root, targetId) ==
  LET p == pathOf(root, targetId) IN
  IF p = NotFound THEN <<>>
  ELSE [i \in 1..(Len(p) + 1) |-> nodeAt(root, SubSeq(p, 1, i - 1)).id]

\* pre-order list of the nodes of a subtree
RECURSIVE preorder(_)
RECURSIVE preorderAll(_)
preorder(n) == <<n>> \o preorderAll(n.children)
preorderAll(cs) == IF cs = <<>> THEN <<>> ELSE preorder(Head(cs)) \o preorderAll(Tail(cs))

idsOf(n) == LET l == preorder(n) IN [i \in 1..Len(l) |-> l[i].id]
idSet(n) == LET ids == idsOf(n) IN {ids[i] : i \in 1..Len(ids)}
inTree(n, id) == pathOf(n, id) # NotFound


\* ---- repair-on-load ---------------------------------------------------------
\* sanitizeTree(node, seenIds): pre-order; a missing or already seen id is replaced
\* by a generated one.  seen and g thread the Set and the generator through the walk.
\* (mutant: only a missing id is replaced)
needsFreshIdWhenMissing(id, seenIds) == id = NoId
\* line 894: !node.id || seenIds.has(node.id)
needsFreshId(id, seenIds) == id = NoId \/ id \in seenIds

RECURSIVE sanitizeTree(_, _, _)
RECURSIVE sanitizeChildren(_, _, _)
sanitizeTree(node, seenIds, g) ==
  LET fresh == needsFreshId(node.id, seenIds)
      id == IF fresh THEN GENERATE_ID(g) ELSE node.id
      g1 == IF fresh THEN g + 1 ELSE g
      kids == sanitizeChildren(node.children, seenIds \cup {id}, g1)
  IN [node |-> [node EXCEPT !.id = id, !.children = kids.nodes], seen |-> kids.seen, g |-> kids.g]
sanitizeChildren(cs, seenIds, g) ==
  IF cs = <<>> THEN [nodes |-> <<>>, seen |-> seenIds, g |-> g]
  ELSE LET h == sanitizeTree(Head(cs), seenIds, g)
           t == sanitizeChildren(Tail(cs), h.seen, h.g)
       IN [nodes |-> <<h.node>> \o t.nodes, seen |-> t.seen, g |-> t.g]

\* ---- search -------------------------------------------------------------------
\* searchAndExpand(node) of the search effect: the node with flags cleared, the ids
\* pushed to `matches` in push order, and the value the call returns
\* (mutant: every node counts as a match)
matchesAnything(text, query) == TRUE
\* line 1107: node.text && node.text.toLowerCase().includes(query)
isMatch(text, query) == text # "" /\ includes(toLowerCase(text), query)

RECURSIVE searchAndExpand(_, _)
RECURSIVE searchChildren(_, _)
searchAndExpand(node, query) ==
  LET isMatch_ == isMatch(node.text, query)
      kids == searchChildren(node.children, query)
      collapsed == IF kids.anyMatch THEN FALSE ELSE node.collapsed
  IN [node |-> [node EXCEPT !.collapsed = collapsed, !.children = kids.nodes],
      matches |-> (IF isMatch_ THEN <<node.id>> ELSE <<>>) \o kids.matches,
      ret |-> isMatch_ \/ \E i \in 1..Len(node.children) :
                            includes(toLowerCase(node.children[i].text), query)]
searchChildren(cs, query) ==
  IF cs = <<>> THEN [nodes |-> <<>>, matches |-> <<>>, anyMatch |-> FALSE]
  ELSE LET h == searchAndExpand(Head(cs), query)
           t == searchChildren(Tail(cs), query)
       IN [nodes |-> <<h.node>> \o t.nodes, matches |-> h.matches \o t.matches,
           anyMatch |-> h.ret \/ t.anyMatch]

\* ---- what is shown ------------------------------------------------------------
\* getFlatList(rootNode): ids in pre-order, the root itself left out, below expanded nodes only
RECURSIVE flatTraverse(_, _)
RECURSIVE flatTraverseAll(_, _)
flatTraverse(node, rootId) ==
  (IF node.id # rootId THEN <<node.id>> ELSE <<>>)
  \o (IF ~node.collapsed THEN flatTraverseAll(node.children, rootId) ELSE <<>>)
flatTraverseAll(cs, rootId) ==
  IF cs = <<>> THEN <<>> ELSE flatTraverse(Head(cs), rootId) \o flatTraverseAll(Tail(cs), rootId)
getFlatList(rootNode) == flatTraverse(rootNode, rootNode.id)

\* renderNode(node): the row of the node, then the rows of its children unless collapsed
RECURSIVE renderNode(_)
RECURSIVE renderNodes(_)
renderNode(node) == <<node.id>> \o (IF ~node.collapsed THEN renderNodes(node.children) ELSE <<>>)
renderNodes(cs) == IF cs = <<>> THEN <<>> ELSE renderNode(Head(cs)) \o renderNodes(Tail(cs))

seqToSet(s) == {s[i] : i \in 1..Len(s)}

\* the App's render: "Loading..." (no rows) when the view root is missing, else
\* the children of the view root, whatever its own collapsed flag
viewFound == inTree(tree, viewRootId)
currentViewNode == nodeAt(tree, pathOf(tree, viewRootId))
renderedRows == IF viewFound THEN renderNodes(currentViewNode.children) ELSE <<>>


\* ---- smart paste ----------------------------------------------------------------
\* text.split(/\r?\n/)
RECURSIVE splitLines(_)
splitLines(s) ==
  IF ~includes(s, "\n") THEN <<s>>
  ELSE LET i == CHOOSE k \in 0..(Len(s) - 1) :
                  charAt(s, k) = "\n" /\ \A j \in 0..(k - 1) : charAt(s, j) # "\n"
           raw == slice(s, 0, i)
           line == IF endsWith(raw, "\r") THEN slice(raw, 0, Len(raw) - 1) ELSE raw
       IN <<line>> \o splitLines(sliceFrom(s, i + 1))

\* line.match(/^(\s*)/)[1]
indentString(line) == slice(line, 0, Len(line) - Len(trimStart(line)))
\* indentString.replace(/\t/g, '    ').length
RECURSIVE tabsExpandedLength(_)
tabsExpandedLength(s) ==
  IF Len(s) = 0 THEN 0
  ELSE (IF charAt(s, 0) = "\t" THEN 4 ELSE 1) + tabsExpandedLength(sliceFrom(s, 1))

isDigit(c) == c \in {"0", "1", "2", "3", "4", "5", "6", "7", "8", "9"}
RECURSIVE digitRun(_)
digitRun(s) == IF Len(s) > 0 /\ isDigit(charAt(s, 0)) THEN 1 + digitRun(sliceFrom(s, 1)) ELSE 0

\* length of the list marker ([-*]|\d+\.) at the start of s, 0 when there is none
markerLength(s) ==
  IF charAt(s, 0) \in {"-", "*"} THEN 1
  ELSE LET d == digitRun(s) IN IF d > 0 /\ charAt(s, d) = "." THEN d + 1 ELSE 0

\* line.replace(/^\s*([-*]|\d+\.)\s+/, '').trim()
cleanText(line) ==
  LET rest == trimStart(line)
      m == markerLength(rest)
      after == sliceFrom(rest, m)
  IN IF m > 0 /\ Len(after) > 0 /\ isSpace(charAt(after, 0)) THEN trim(after) ELSE trim(line)

\* children array reached from the list `forest` by the child positions p, and its update
Holder(forest) == Node(NoId, "", FALSE, forest)
pushAt(forest, p, newNode) ==
  LET h == Holder(forest)
      target == nodeAt(h, p)
  IN replaceAt(h, p, [target EXCEPT !.children = Append(@, newNode)]).children

\* (mutant: a frame of the same level is kept, so a line nests under its equal)
RECURSIVE popStackDeeper(_, _)
popStackDeeper(stack, indentLevel) ==
  IF Len(stack) > 1 /\ stack[Len(stack)].level > indentLevel
  THEN popStackDeeper(Front(stack), indentLevel) ELSE stack
\* while (stack.length > 1 && stack[stack.length - 1].level >= indentLevel) stack.pop()
RECURSIVE popStack(_, _)
popStack(stack, indentLevel) ==
  IF Len(stack) > 1 /\ stack[Len(stack)].level >= indentLevel
  THEN popStack(Front(stack), indentLevel) ELSE stack

\* lines.forEach(...): st = [rootNodes, stack, g]; a stack frame holds the level and
\* the position of the node whose children array it refers to
RECURSIVE parseLines(_, _)
parseLines(lines, st) ==
  IF lines = <<>> THEN st
  ELSE LET line == Head(lines) IN
       IF trim(line) = "" THEN parseLines(Tail(lines), st)
       ELSE LET indentLevel == tabsExpandedLength(indentString(line))
                newNode == Node(GENERATE_ID(st.g), cleanText(line), FALSE, <<>>)
                stack == popStack(st.stack, indentLevel)
                parent == stack[Len(stack)]
                siblings == nodeAt(Holder(st.rootNodes), parent.path).children
                rootNodes == pushAt(st.rootNodes, parent.path, newNode)
                frame == [level |-> indentLevel, path |-> Append(parent.path, Len(siblings) + 1)]
            IN parseLines(Tail(lines),
                          [rootNodes |-> rootNodes, stack |-> Append(stack, frame), g |-> st.g + 1])

\* parseTextToNodes(text), with the generator threaded: [rootNodes, g]
parseTextToNodes(text, g) ==
  LET r == parseLines(splitLines(text),
                      [rootNodes |-> <<>>, stack |-> <<[level |-> -1, path |-> <<>>]>>, g |-> g])
  IN [rootNodes |-> r.rootNodes, g |-> r.g]

\* ---- export ----------------------------------------------------------------------
\* '  '.repeat(depth)
RECURSIVE repeatIndent(_)
repeatIndent(depth) == IF depth = 0 THEN "" ELSE "  " \o repeatIndent(depth - 1)
\* treeToString(node, depth): one line "- text" per node but 'root', two blanks of
\* indentation per level, the children of 'root' at level 0
RECURSIVE treeToString(_, _)
RECURSIVE childrenToString(_, _)
treeToString(node, depth) ==
  (IF node.id # RootId THEN repeatIndent(depth) \o "- " \o node.text \o "\n" ELSE "")
  \o childrenToString(node.children, IF node.id = RootId THEN 0 ELSE depth + 1)
childrenToString(cs, depth) ==
  IF cs = <<>> THEN "" ELSE treeToString(Head(cs), depth) \o childrenToString(Tail(cs), depth)

\* number of nodes parseTextToNodes creates
nonBlankLines(text) == Cardinality({i \in 1..Len(splitLines(text)) : trim(splitLines(text)[i]) # ""})


\* ---- load ---------------------------------------------------------------------
DEFAULT_STATE ==
  [tree |-> Node("root", "Home", FALSE, <<
      Leaf("1", "Welcome to v13.39 (Safe Harbor)"),
      Leaf("2", "We have rolled back to the v13.34 architecture."),
      Node("3", "This version includes:", FALSE, <<
          Leaf("3-1", "Auto-repair for duplicate IDs (fixes blank screen on load)."),
          Leaf("3-2", "CSS-based resizing (fixes layout thrashing without complex JS)."),
          Leaf("3-3", "Cleaned up variable names (fixes Netlify build errors).")>>),
      Leaf("4", "Your data is safe. All shortcuts work.")>>),
   viewRootId |-> "root", focusId |-> NoId]

\* What localStorage and the URL fragment may hold when the App starts: nothing, or a
\* state saved earlier, possibly with duplicate or missing ids.
Saved(t, v, f, h) == [saved |-> TRUE, tree |-> t, viewRootId |-> v, focusId |-> f, hash |-> h]
Payloads == {
  [saved |-> FALSE, hash |-> ""],
  \* a match four levels down, below three collapsed nodes
  Saved(Node("root", "Home", FALSE, <<
          Node("a", "x", TRUE, <<Node("b", "y", TRUE, <<Node("c", "z", TRUE, <<
              Leaf("d", "Target")>>)>>)>>),
          Leaf("e", "at")>>), "root", NoId, ""),
  \* expanded and collapsed parents, a blank row
  Saved(Node("root", "Home", FALSE, <<
          Node("a", "ab", FALSE, <<Leaf("c", "cd")>>),
          Node("b", "e f", TRUE, <<Leaf("d", "")>>),
          Leaf("e", "")>>), "root", "a", ""),
  \* zoomed into a
  Saved(Node("root", "Home", FALSE, <<
          Node("a", "ab", FALSE, <<Node("b", "b", FALSE, <<Leaf("c", "c")>>), Leaf("d", " d")>>),
          Leaf("e", "e")>>), "a", "c", ""),
  \* duplicate and missing ids
  Saved(Node("root", "Home", FALSE, <<
          Leaf("a", "p"), Node("a", "q", FALSE, <<Leaf(NoId, "r")>>)>>), "a", "a", ""),
  \* the top node has lost its id
  Saved(Node(NoId, "Home", FALSE, <<Leaf("a", "p")>>), "root", NoId, ""),
  \* a deep link to a node that does not exist; two blank rows
  Saved(Node("root", "Home", FALSE, <<Leaf("a", ""), Leaf("b", ""), Leaf("c", "a\n\n\nb ")>>),
        "root", "b", StaleId),
  \* a deep link into a collapsed node
  Saved(Node("root", "Home", FALSE, <<
          Node("b", "B", TRUE, <<Leaf("c", "k"), Leaf("d", "")>>)>>), "root", NoId, "b"),
  \* saved after the view went back to the root by a change of the fragment, the focus
  \* still on a row of the collapsed node that was the view
  Saved(Node("root", "Home", FALSE, <<
          Node("b", "B", TRUE, <<Node("c", "k", FALSE, <<Leaf("d", "")>>)>>), Leaf("e", "e")>>),
        "root", "d", "")
}

\* useState initializers (lines 966-994) and the Initialization effect (1197-1213)
load(p) ==
  LET state == IF p.saved THEN p ELSE DEFAULT_STATE
      clean == IF p.saved THEN sanitizeTree(state.tree, {}, 0)
               ELSE [node |-> DEFAULT_STATE.tree, g |-> 0]
      view0 == IF p.hash # "" THEN p.hash
               ELSE IF state.viewRootId # NoId THEN state.viewRootId ELSE RootId
      view1 == IF inTree(clean.node, view0) THEN view0 ELSE RootId
      f == state.focusId
      last0 == IF f # NoId /\ f # view0 THEN f ELSE NoId
      last1 == IF f # NoId /\ f # view1 THEN f ELSE last0
  IN [tree |-> clean.node, gen |-> clean.g, viewRootId |-> view1, focusId |-> f, lastFocus |-> last1]

NoGoal == [kind |-> "none", at |-> 0]
Goal(kind) == [kind |-> kind, at |-> 0]
GoalAt(n) == [kind |-> "offset", at |-> n]

Init ==
  \E p \in Payloads :
    LET s == load(p) IN
    /\ tree = s.tree
    /\ viewRootId = s.viewRootId
    /\ focusId = s.focusId
    /\ lastFocus = s.lastFocus
    /\ gen = s.gen
    /\ cursorGoal = NoGoal
    /\ searchQuery = ""
    /\ matchIds = <<>>
    /\ currentMatchIndex = -1
    /\ skipBlur = FALSE
    /\ draggedId = NoId
    /\ isAllExpanded = FALSE
    /\ crashed = FALSE
    /\ hist = <<>>

\* ---- bookkeeping shared by the actions ------------------------------------------
\* an intent can be taken while the App is mounted
Enabled == ~crashed /\ Len(hist) < MaxSteps

\* the keys of the search box can be pressed one intent longer in a run that has
\* not left the search box
SearchOps == {"search", "searchCancel", "ArrowDown", "ArrowUp", "searchAccept"}
SearchEnabled ==
  /\ ~crashed
  /\ \/ Len(hist) < MaxSteps
     \/ Len(hist) < MaxSearchSteps /\ \A i \in 1..Len(hist) : hist[i].op \in SearchOps

\* zooming in and out can go on one intent longer in a run that has done nothing else
ZoomOps == {"zoomIn", "zoomOut"}
ZoomEnabled ==
  /\ ~crashed
  /\ \/ Len(hist) < MaxSteps
     \/ Len(hist) < MaxZoomSteps /\ \A i \in 1..Len(hist) : hist[i].op \in ZoomOps

\* the intent, its arguments, what it raised, and the state it started from
Entry(op, id, k, s, err) ==
  [op |-> op, id |-> id, k |-> k, s |-> s, err |-> err,
   tree |-> tree, viewRootId |-> viewRootId, focusId |-> focusId, cursorGoal |-> cursorGoal,
   searchQuery |-> searchQuery, matchIds |-> matchIds, currentMatchIndex |-> currentMatchIndex,
   lastFocus |-> lastFocus, skipBlur |-> skipBlur, draggedId |-> draggedId, gen |-> gen]
Log(op, id, k, s, err) == hist' = Append(hist, Entry(op, id, k, s, err))

\* Track Last Focus effect (lines 1040-1044), run after the commit
TrackLastFocus ==
  lastFocus' = IF focusId' # NoId /\ focusId' # viewRootId' THEN focusId' ELSE lastFocus

\* ids a row handler can be called with: a rendered row, or a row that is gone by
\* the time the updater runs
RowArgs == IF Enabled THEN seqToSet(renderedRows) \cup {StaleId} ELSE {}
headerShown == viewFound /\ viewRootId # RootId
headerEditing == headerShown /\ focusId = viewRootId


\* ---- editing the tree -----------------------------------------------------------
hasChildren(n) == Len(n.children) > 0
isBlankLeaf(n) == trim(n.text) = "" /\ ~hasChildren(n)

\* the tree with the children array of the node at p replaced
withChildren(t, p, cs) == replaceAt(t, p, [nodeAt(t, p) EXCEPT !.children = cs])

\* (mutant: the node stays where it is)
detachNone(t, p) == t
\* parent.children.splice(index, 1) for the node at p
detach(t, p) ==
  LET pp == Front(p) IN withChildren(t, pp, splice(nodeAt(t, pp).children, p[Len(p)] - 1, 1, <<>>))

\* dest.children.push(node) / unshift(node) / splice(at, 0, node) on the node object `destId`
pushChild(t, destId, node) ==
  LET q == pathOf(t, destId) IN withChildren(t, q, Append(nodeAt(t, q).children, node))
unshiftChild(t, destId, node) ==
  LET q == pathOf(t, destId) IN withChildren(t, q, <<node>> \o nodeAt(t, q).children)
\* (mutant: the node is put in without its children)
spliceChildBare(t, destId, at, node) ==
  LET q == pathOf(t, destId)
  IN withChildren(t, q, splice(nodeAt(t, q).children, at, 0, <<[node EXCEPT !.children = <<>>]>>))
spliceChild(t, destId, at, node) ==
  LET q == pathOf(t, destId) IN withChildren(t, q, splice(nodeAt(t, q).children, at, 0, <<node>>))

\* text.trim().replace(/\n{3,}/g, '\n\n')
normalizeText(text) == squeezeNewlines(trim(text))

\* the updater of handleBlur (lines 1280-1304)
blurTree(prev, id) ==
  LET result == findNodeAndParent(prev, id) IN
  IF ~result.found THEN prev
  ELSE LET p == result.path
           text == normalizeText(nodeAt(prev, p).text)
           t1 == replaceAt(prev, p, [nodeAt(prev, p) EXCEPT !.text = text])
           node == nodeAt(t1, p)
       IN IF ~result.hasParent THEN t1
          ELSE LET parent == nodeAt(t1, Front(p))
                   idx == findIndex(parent.children, id)
               IN IF text = "" /\ ~hasChildren(node)
                  THEN IF idx # -1 THEN withChildren(t1, Front(p), splice(parent.children, idx, 1, <<>>))
                       ELSE t1
                  ELSE IF idx > 0 /\ isBlankLeaf(at0(parent.children, idx - 1))
                       THEN withChildren(t1, Front(p), splice(parent.children, idx - 1, 1, <<>>))
                       ELSE t1

\* What an updater that defers a focus change hands back: the tree, and the focus
\* directive of its setTimeout (set = FALSE when it returned before scheduling one).
Kept(prev) == [tree |-> prev, set |-> FALSE, focus |-> NoId, goal |-> NoGoal, made |-> 0]
Done(t, f, goal, made) == [tree |-> t, set |-> TRUE, focus |-> f, goal |-> goal, made |-> made]

\* the updater of handleEnter (lines 1494-1543)
\* (mutant: a node with children takes the new node as a child even when collapsed)
shouldSplitIntoChildCollapsed(node, cursor) == cursor > 0 /\ hasChildren(node)
\* line 1505
shouldSplitIntoChild(node, cursor) == cursor > 0 /\ hasChildren(node) /\ ~node.collapsed

enterResult(prev, id, cursor, g) ==
  LET currentResult == findNodeAndParent(prev, id) IN
  IF ~currentResult.found THEN Kept(prev)
  ELSE LET p == currentResult.path
           node == nodeAt(prev, p)
           parent == nodeAt(prev, Front(p))
           index == findIndex(parent.children, id)
           text == node.text
           textBefore == slice(text, 0, cursor)
           textAfter == sliceFrom(text, cursor)
           cut == replaceAt(prev, p, [node EXCEPT !.text = textBefore])
       IN IF node.text = "" THEN Kept(prev)
          ELSE IF cursor = 0
          THEN IF index > 0 /\ isBlankLeaf(at0(parent.children, index - 1))
               THEN Kept(prev)
               ELSE Done(spliceChild(prev, parent.id, index, Leaf(GENERATE_ID(g), "")),
                         GENERATE_ID(g), Goal("start"), 1)
          ELSE IF shouldSplitIntoChild(node, cursor)
          THEN Done(unshiftChild(cut, id, Leaf(GENERATE_ID(g), textAfter)),
                    GENERATE_ID(g), Goal("start"), 1)
          ELSE Done(spliceChild(cut, parent.id, index + 1, Leaf(GENERATE_ID(g), textAfter)),
                    GENERATE_ID(g), Goal("start"), 1)

\* (mutant: the node is spliced into the grandparent without leaving its parent)
promoteKeep(t, p, offset) ==
  LET node == nodeAt(t, p)
      parent == nodeAt(t, Front(p))
      gpResult == findNodeAndParent(t, parent.id)
  IN IF ~(gpResult.found /\ gpResult.hasParent) THEN [ok |-> FALSE, tree |-> t]
     ELSE LET grandParent == nodeAt(t, Front(gpResult.path))
              pIdx == findIndex(grandParent.children, parent.id)
          IN [ok |-> TRUE, tree |-> spliceChild(t, grandParent.id, pIdx + offset, node)]

\* the node at p becomes the next sibling of its parent (lines 1561-1566, 1606-1611,
\* 1470-1476); FALSE-tagged when the parent has no parent
promote(t, p, offset) ==
  LET node == nodeAt(t, p)
      parent == nodeAt(t, Front(p))
      gpResult == findNodeAndParent(t, parent.id)
  IN IF ~(gpResult.found /\ gpResult.hasParent) THEN [ok |-> FALSE, tree |-> t]
     ELSE LET grandParent == nodeAt(t, Front(gpResult.path))
              pIdx == findIndex(grandParent.children, parent.id)
          IN [ok |-> TRUE, tree |-> spliceChild(detach(t, p), grandParent.id, pIdx + offset, node)]


\* (mutant: the outdented node lands before its former parent)
outdentIndexBefore(parentIndex) == parentIndex
\* line 1476: grandParent.children.splice(parentIndex + 1, 0, node)
outdentIndex(parentIndex) == parentIndex + 1

\* (mutant: no parent counts as the view root)
parentIsNeverViewRoot(parent, view) == FALSE
\* line 1469: parent.id === viewRootId
parentIsViewRoot(parent, view) == parent.id = view

\* the updater of handleShiftTab (lines 1464-1483)
shiftTabResult(prev, id, view) ==
  LET result == findNodeAndParent(prev, id) IN
  IF ~result.found \/ ~result.hasParent THEN Kept(prev)
  ELSE LET parent == nodeAt(prev, Front(result.path))
           moved == promote(prev, result.path, outdentIndex(0))
       IN IF parentIsViewRoot(parent, view) THEN Kept(prev)
          ELSE IF ~moved.ok THEN Kept(prev)
          ELSE Done(moved.tree, id, Goal("end"), 0)

\* (mutant: the text of the merged node is dropped)
mergedTextDropped(prevText, text) == prevText
\* lines 1586-1591: the texts joined, one space put between them unless either is
\* empty or a space is already there
mergedText(prevText, text) ==
  LET joint == Len(prevText) > 0 /\ Len(text) > 0 /\ ~endsWith(prevText, " ") /\ ~startsWith(text, " ")
  IN prevText \o (IF joint THEN " " ELSE "") \o text

\* the updater of handleBackspace (lines 1552-1618)
backspaceResult(prev, id, view) ==
  LET result == findNodeAndParent(prev, id) IN
  IF ~result.found \/ ~result.hasParent THEN Kept(prev)
  ELSE LET p == result.path
           node == nodeAt(prev, p)
           parent == nodeAt(prev, Front(p))
           index == findIndex(parent.children, id)
           moved == promote(prev, p, 1)
       IN IF hasChildren(node) /\ index = 0 /\ parent.id # view /\ moved.ok
          THEN Done(moved.tree, id, Goal("end"), 0)
          ELSE IF index > 0
          THEN LET prevSibling == at0(parent.children, index - 1) IN
               IF hasChildren(prevSibling) /\ ~prevSibling.collapsed
               THEN Done(pushChild(detach(prev, p), prevSibling.id, node), node.id, Goal("start"), 0)
               ELSE LET joint == Len(prevSibling.text) > 0 /\ Len(node.text) > 0
                                 /\ ~endsWith(prevSibling.text, " ") /\ ~startsWith(node.text, " ")
                        cursorTarget == Len(prevSibling.text) + (IF joint THEN 1 ELSE 0)
                        text == mergedText(prevSibling.text, node.text)
                        merged == [prevSibling EXCEPT
                                     !.text = text,
                                     !.children = IF hasChildren(node) THEN @ \o node.children ELSE @,
                                     !.collapsed = IF hasChildren(node) THEN FALSE ELSE @]
                        t1 == detach(prev, p)
                    IN Done(replaceAt(t1, pathOf(t1, prevSibling.id), merged),
                            prevSibling.id, GoalAt(cursorTarget), 0)
          ELSE IF parent.id # view /\ moved.ok
          THEN Done(moved.tree, id, Goal("end"), 0)
          ELSE Kept(prev)

\* `nodeToMove` (line 1634) is bound nowhere in this revision: evaluating it throws
\* a ReferenceError inside the updater
nodeToMoveBound == FALSE

\* the updater of handleTab (lines 1624-1642): what it returns, or that it throws
tabResult(prev, id) ==
  LET result == findNodeAndParent(prev, id) IN
  IF ~result.found \/ ~result.hasParent THEN [throws |-> FALSE, r |-> Kept(prev)]
  ELSE LET parent == nodeAt(prev, Front(result.path))
           index == findIndex(parent.children, id)
       IN IF index = 0 THEN [throws |-> FALSE, r |-> Kept(prev)]
          ELSE [throws |-> ~nodeToMoveBound, r |-> Kept(prev)]

\* the updater of handleMoveNode (lines 1648-1700)
\* (mutant: the two array cells keep what they held)
swapKept(a, i, j) == a
\* lines 1661-1662 and 1681-1682: the cells i and j (0-based) exchange their nodes
swap(a, i, j) == [a EXCEPT ![i + 1] = at0(a, j), ![j + 1] = at0(a, i)]
\* (mutant: at either boundary the node lands after its former parent)
boundaryOffsetAfter(direction) == 1
\* lines 1671 and 1691: splice at parentIndex (up) or parentIndex + 1 (down)
boundaryOffset(direction) == IF direction = "up" THEN 0 ELSE 1

moveNodeResult(prev, id, direction, view) ==
  LET result == findNodeAndParent(prev, id) IN
  IF ~result.found \/ ~result.hasParent THEN Kept(prev)
  ELSE LET p == result.path
           node == nodeAt(prev, p)
           parent == nodeAt(prev, Front(p))
           index == findIndex(parent.children, id)
           atEdge == parent.id = view \/ parent.id = RootId
       IN IF direction = "up"
          THEN IF index > 0
               THEN LET prevSibling == at0(parent.children, index - 1) IN
                    IF ~prevSibling.collapsed /\ hasChildren(prevSibling)
                    THEN Done(pushChild(detach(prev, p), prevSibling.id, node), id, cursorGoal, 0)
                    ELSE Done(withChildren(prev, Front(p), swap(parent.children, index, index - 1)),
                              id, cursorGoal, 0)
               ELSE IF atEdge THEN Kept(prev)
                    ELSE Done(promote(prev, p, boundaryOffset("up")).tree, id, cursorGoal, 0)
          ELSE IF index < Len(parent.children) - 1
               THEN LET nextSibling == at0(parent.children, index + 1) IN
                    IF ~nextSibling.collapsed /\ hasChildren(nextSibling)
                    THEN Done(unshiftChild(detach(prev, p), nextSibling.id, node), id, cursorGoal, 0)
                    ELSE Done(withChildren(prev, Front(p), swap(parent.children, index, index + 1)),
                              id, cursorGoal, 0)
               ELSE IF atEdge THEN Kept(prev)
                    ELSE Done(promote(prev, p, boundaryOffset("down")).tree, id, cursorGoal, 0)

\* isDescendant as the revisions before this one define it (lines 272-281)
RECURSIVE findInSubtree(_, _)
findInSubtree(n, targetId) ==
  n.id = targetId \/ \E i \in 1..Len(n.children) : findInSubtree(n.children[i], targetId)
isDescendant(t, sourceId, targetId) ==
  LET sourceResult == findNodeAndParent(t, sourceId) IN
  IF ~sourceResult.found THEN FALSE
  ELSE LET sourceNode == nodeAt(t, sourceResult.path)
       IN \E i \in 1..Len(sourceNode.children) : findInSubtree(sourceNode.children[i], targetId)

\* this revision calls isDescendant (line 1843) but does not define it: the call
\* throws a ReferenceError before handleDrop has changed anything
isDescendantBound == FALSE

\* (mutant: no validation at all; the source is detached and spliced next to the
\* target wherever the target then is, even inside the detached subtree)
dropResultUnchecked(t, dragged, targetId) ==
  LET sourceResult == findNodeAndParent(t, dragged)
      targetResult == findNodeAndParent(t, targetId)
      quiet == [tree |-> t, set |-> FALSE, err |-> "none"]
  IN IF dragged = NoId \/ dragged = targetId THEN quiet
     ELSE IF ~sourceResult.found \/ ~sourceResult.hasParent
             \/ ~targetResult.found \/ ~targetResult.hasParent THEN quiet
     ELSE LET sourceNode == nodeAt(t, sourceResult.path)
              t1 == detach(t, sourceResult.path)
              fresh == findNodeAndParent(t1, targetId)
          IN IF ~fresh.found THEN [tree |-> t1, set |-> TRUE, err |-> "none"]
             ELSE LET freshTargetParent == nodeAt(t1, Front(fresh.path))
                      targetIndex == findIndex(freshTargetParent.children, targetId)
                  IN [tree |-> spliceChild(t1, freshTargetParent.id, targetIndex, sourceNode),
                      set |-> TRUE, err |-> "none"]

\* handleDrop (lines 1839-1861): the tree it sets, whether it sets one, what it throws
dropResult(t, dragged, targetId) ==
  LET sourceResult == findNodeAndParent(t, dragged)
      targetResult == findNodeAndParent(t, targetId)
      quiet == [tree |-> t, set |-> FALSE, err |-> "none"]
  IN IF dragged = NoId \/ dragged = targetId THEN quiet
     ELSE IF ~isDescendantBound THEN [quiet EXCEPT !.err = "ReferenceError"]
     ELSE IF isDescendant(t, dragged, targetId) THEN quiet
     ELSE IF ~sourceResult.found \/ ~sourceResult.hasParent
             \/ ~targetResult.found \/ ~targetResult.hasParent THEN quiet
     ELSE LET sourceNode == nodeAt(t, sourceResult.path)
              t1 == detach(t, sourceResult.path)
              freshTargetResult == findNodeAndParent(t1, targetId)
          IN IF ~freshTargetResult.found THEN [quiet EXCEPT !.err = "TypeError"]
             ELSE LET freshTargetParent == nodeAt(t1, Front(freshTargetResult.path))
                      targetIndex == findIndex(freshTargetParent.children, targetId)
                  IN [tree |-> spliceChild(t1, freshTargetParent.id, targetIndex, sourceNode),
                      set |-> TRUE, err |-> "none"]


\* ---- inputs of the intents ------------------------------------------------------
TypedTexts == {"", " A\n\n\nb "}
PasteTexts == {"x", "\n \n", "- A\n  - B\n  - C\n    - D"}
SearchQueries == {"", " ", "a", "TARGET", "e"}
Directions == {"up", "down"}
HashValues == IF Enabled THEN idSet(tree) \cup {StaleId, ""} ELSE {}

\* offsets the caret of the row of `id` can be at when Enter is pressed
CursorChoices(id) ==
  IF inTree(tree, id)
  THEN LET text == nodeAt(tree, pathOf(tree, id)).text
       IN {k \in 0..Len(text) : k <= MaxCursor \/ k = Len(text)}
  ELSE {0}

\* ---- the intents ------------------------------------------------------------------
searchVars == <<searchQuery, matchIds, currentMatchIndex>>

\* tree, view root and focus as the intent leaves them, then the effects that follow a commit
Commit(op, id, k, s, err, t, view, focus, goal) ==
  /\ tree' = t
  /\ viewRootId' = view
  /\ focusId' = focus
  /\ cursorGoal' = goal
  /\ TrackLastFocus
  /\ Log(op, id, k, s, err)

\* an updater's result, with the focus change it deferred
CommitResult(op, id, k, s, r) ==
  Commit(op, id, k, s, "none", r.tree, viewRootId,
         IF r.set THEN r.focus ELSE focusId, IF r.set THEN r.goal ELSE cursorGoal)

\* onFocus of a row (line 1924)
handleFocus(id) ==
  /\ Enabled
  /\ id \in seqToSet(renderedRows)
  /\ Commit("focus", id, 0, "", "none", tree, viewRootId, id, cursorGoal)
  /\ UNCHANGED <<searchVars, skipBlur, draggedId, isAllExpanded, gen, crashed>>

\* click on the title of the zoomed node (line 2043)
handleHeaderClick ==
  /\ Enabled
  /\ headerShown /\ ~headerEditing
  /\ Commit("headerClick", viewRootId, 0, "", "none", tree, viewRootId, viewRootId, Goal("start"))
  /\ UNCHANGED <<searchVars, skipBlur, draggedId, isAllExpanded, gen, crashed>>

\* handleUpdateText (lines 1245-1254): rows, and the title while it is edited
updateTextTree(prev, id, newText) ==
  LET result == findNodeAndParent(prev, id) IN
  IF result.found
  THEN replaceAt(prev, result.path, [nodeAt(prev, result.path) EXCEPT !.text = newText])
  ELSE prev
handleUpdateText(id, newText) ==
  /\ Enabled
  /\ id \in RowArgs \cup (IF headerEditing THEN {viewRootId} ELSE {})
  /\ Commit("updateText", id, 0, newText, "none",
            updateTextTree(tree, id, newText), viewRootId, focusId, cursorGoal)
  /\ UNCHANGED <<searchVars, skipBlur, draggedId, isAllExpanded, gen, crashed>>

\* handlePaste (lines 1256-1273)
\* (mutant: the parsed nodes are spliced in twice)
pasteTreeTwice(prev, id, newNodes) ==
  LET result == findNodeAndParent(prev, id) IN
  IF ~result.found THEN prev
  ELSE LET parent == nodeAt(prev, Front(result.path))
           index == findIndex(parent.children, id)
       IN withChildren(prev, Front(result.path),
                       splice(parent.children, index + 1, 0, newNodes \o newNodes))
pasteTree(prev, id, newNodes) ==
  LET result == findNodeAndParent(prev, id) IN
  IF ~result.found THEN prev
  ELSE LET parent == nodeAt(prev, Front(result.path))
           index == findIndex(parent.children, id)
       IN withChildren(prev, Front(result.path), splice(parent.children, index + 1, 0, newNodes))
handlePaste(id, pastedData) ==
  /\ Enabled
  /\ id \in RowArgs
  /\ gen + nonBlankLines(pastedData) <= MaxGen
  /\ LET parsed == parseTextToNodes(pastedData, gen)
         single == ~includes(pastedData, "\n")
         newNodes == parsed.rootNodes
     IN /\ skipBlur' = IF single THEN skipBlur ELSE TRUE
        /\ gen' = IF single THEN gen ELSE parsed.g
        /\ Commit("paste", id, 0, pastedData, "none",
                  IF single \/ Len(newNodes) = 0 THEN tree ELSE pasteTree(tree, id, newNodes),
                  viewRootId, focusId, cursorGoal)
  /\ UNCHANGED <<searchVars, draggedId, isAllExpanded, crashed>>

\* handleBlur (lines 1275-1305)
handleBlur(id) ==
  /\ Enabled
  /\ id \in RowArgs
  /\ skipBlur' = FALSE
  /\ Commit("blur", id, 0, "", "none",
            IF skipBlur THEN tree ELSE blurTree(tree, id), viewRootId, focusId, cursorGoal)
  /\ UNCHANGED <<searchVars, draggedId, isAllExpanded, gen, crashed>>

\* rescueFocusId of handleToggleCollapse / setCollapseState
rescueFocusId(id) ==
  IF focusId # NoId /\ id \in seqToSet(findPath(tree, focusId)) /\ id # focusId THEN id ELSE NoId

\* the updaters of handleToggleCollapse (toggle) and setCollapseState (set to `to`)
collapseTree(prev, id, toggle, to) ==
  LET result == findNodeAndParent(prev, id) IN
  IF result.found
  THEN replaceAt(prev, result.path,
                 [nodeAt(prev, result.path) EXCEPT !.collapsed = IF toggle THEN ~@ ELSE to])
  ELSE prev

\* handleToggleCollapse (lines 1307-1329)
handleToggleCollapse(id) ==
  /\ Enabled
  /\ id \in RowArgs
  /\ LET rescue == rescueFocusId(id)
     IN Commit("toggleCollapse", id, 0, "", "none", collapseTree(tree, id, TRUE, FALSE), viewRootId,
               IF rescue # NoId THEN rescue ELSE focusId,
               IF rescue # NoId THEN Goal("start") ELSE cursorGoal)
  /\ UNCHANGED <<searchVars, skipBlur, draggedId, isAllExpanded, gen, crashed>>

\* setCollapseState (lines 1331-1352)
setCollapseState(id, shouldCollapse) ==
  /\ Enabled
  /\ id \in RowArgs
  /\ LET rescue == IF shouldCollapse THEN rescueFocusId(id) ELSE NoId
     IN Commit("setCollapse", id, IF shouldCollapse THEN 1 ELSE 0, "", "none",
               collapseTree(tree, id, FALSE, shouldCollapse), viewRootId,
               IF rescue # NoId THEN rescue ELSE focusId,
               IF rescue # NoId THEN Goal("start") ELSE cursorGoal)
  /\ UNCHANGED <<searchVars, skipBlur, draggedId, isAllExpanded, gen, crashed>>

\* traverse of handleExpandAll / handleCollapseAll: every node gets the flag
RECURSIVE setAllCollapsed(_, _)
setAllCollapsed(n, c) ==
  [n EXCEPT !.collapsed = c,
            !.children = [i \in 1..Len(n.children) |-> setAllCollapsed(n.children[i], c)]]

\* handleExpandAll (lines 1354-1368)
handleExpandAll ==
  /\ Enabled
  /\ isAllExpanded' = TRUE
  /\ Commit("expandAll", NoId, 0, "", "none", setAllCollapsed(tree, FALSE),
            viewRootId, focusId, cursorGoal)
  /\ UNCHANGED <<searchVars, skipBlur, draggedId, gen, crashed>>

\* (mutant: the focus is left on the focused node)
rescueAtFocus(path, viewRootIndex) == at0(path, Len(path) - 1)
\* line 1377: rescueFocusId = path[viewRootIndex + 1].id
rescueAt(path, viewRootIndex) == at0(path, viewRootIndex + 1)

\* handleCollapseAll (lines 1370-1401)
collapseAllRescue ==
  LET path == findPath(tree, focusId)
      hits == {i \in 1..Len(path) : path[i] = viewRootId}
      viewRootIndex == IF hits = {} THEN -1 ELSE (CHOOSE i \in hits : \A j \in hits : i <= j) - 1
  IN IF focusId = NoId \/ path = <<>> THEN NoId
     ELSE IF viewRootIndex # -1 /\ viewRootIndex + 1 < Len(path) THEN rescueAt(path, viewRootIndex)
     ELSE IF viewRootId = RootId /\ Len(path) > 1 THEN at0(path, 1)
     ELSE NoId
handleCollapseAll ==
  /\ Enabled
  /\ isAllExpanded' = FALSE
  /\ LET rescue == collapseAllRescue
     IN Commit("collapseAll", NoId, 0, "", "none",
               [setAllCollapsed(tree, TRUE) EXCEPT !.collapsed = FALSE], viewRootId,
               IF rescue # NoId THEN rescue ELSE focusId,
               IF rescue # NoId THEN Goal("start") ELSE cursorGoal)
  /\ UNCHANGED <<searchVars, skipBlur, draggedId, gen, crashed>>


\* Alt+Shift+Right in a row (lines 1746-1751), or a click on a breadcrumb (line 1977)
breadcrumbs == IF headerShown THEN seqToSet(findPath(tree, viewRootId)) ELSE {}
handleZoomIn(id) ==
  /\ ZoomEnabled
  /\ id \in seqToSet(renderedRows) \cup breadcrumbs
  /\ Commit("zoomIn", id, 0, "", "none", tree, id, id, Goal("start"))
  /\ UNCHANGED <<searchVars, skipBlur, draggedId, isAllExpanded, gen, crashed>>

\* click on the bullet of a row (line 1900)
handleBulletClick(id) ==
  /\ Enabled
  /\ id \in seqToSet(renderedRows)
  /\ Commit("bulletClick", id, 0, "", "none", tree, id, id, NoGoal)
  /\ UNCHANGED <<searchVars, skipBlur, draggedId, isAllExpanded, gen, crashed>>

\* handleZoomOut (lines 1407-1415)
handleZoomOut ==
  /\ ZoomEnabled
  /\ LET result == findNodeAndParent(tree, viewRootId)
         go == viewRootId # RootId /\ result.found /\ result.hasParent
     IN Commit("zoomOut", NoId, 0, "", "none", tree,
               IF go THEN nodeAt(tree, Front(result.path)).id ELSE viewRootId,
               IF go THEN viewRootId ELSE focusId,
               IF go THEN Goal("start") ELSE cursorGoal)
  /\ UNCHANGED <<searchVars, skipBlur, draggedId, isAllExpanded, gen, crashed>>

\* handleGoHome (lines 1417-1427)
handleGoHome ==
  /\ Enabled
  /\ LET result == findNodeAndParent(tree, RootId)
         first == result.found /\ hasChildren(nodeAt(tree, result.path))
     IN Commit("goHome", NoId, 0, "", "none", tree, RootId,
               IF first THEN at0(nodeAt(tree, result.path).children, 0).id ELSE RootId,
               IF first THEN Goal("start") ELSE cursorGoal)
  /\ UNCHANGED <<searchVars, skipBlur, draggedId, isAllExpanded, gen, crashed>>

\* the updater of handleAddFirstChild (lines 1430-1442)
addFirstChildResult(prev, view, g) ==
  LET result == findNodeAndParent(prev, view) IN
  IF ~result.found THEN Kept(prev)
  ELSE Done(unshiftChild(prev, view, Leaf(GENERATE_ID(g), "")), GENERATE_ID(g), Goal("start"), 1)

\* handleAddFirstChild: Enter in the title (line 1446), click on the "Empty" line (2053)
handleAddFirstChild ==
  /\ Enabled
  /\ gen < MaxGen
  /\ headerEditing \/ (viewFound /\ ~hasChildren(currentViewNode))
  /\ LET r == addFirstChildResult(tree, viewRootId, gen)
     IN /\ gen' = gen + r.made
        /\ CommitResult("addFirstChild", viewRootId, 0, "", r)
  /\ UNCHANGED <<searchVars, skipBlur, draggedId, isAllExpanded, crashed>>

\* ArrowDown in the title (lines 1450-1458)
handleHeaderArrowDown ==
  /\ Enabled
  /\ headerEditing
  /\ LET first == hasChildren(currentViewNode)
     IN Commit("headerArrowDown", viewRootId, 0, "", "none", tree, viewRootId,
               IF first THEN at0(currentViewNode.children, 0).id ELSE focusId,
               IF first THEN Goal("start") ELSE cursorGoal)
  /\ UNCHANGED <<searchVars, skipBlur, draggedId, isAllExpanded, gen, crashed>>

\* Enter while no input has the keyboard (lines 1803-1825)
handleGlobalEnter ==
  /\ Enabled
  /\ gen < MaxGen
  /\ LET back == lastFocus # NoId /\ inTree(tree, lastFocus)
         add == IF ~back /\ viewFound /\ ~hasChildren(currentViewNode)
                THEN addFirstChildResult(tree, viewRootId, gen) ELSE Kept(tree)
         first == ~back /\ viewFound /\ hasChildren(currentViewNode)
     IN /\ gen' = gen + add.made
        /\ Commit("globalEnter", NoId, 0, "", "none", add.tree, viewRootId,
                  IF back THEN lastFocus
                  ELSE IF first THEN at0(currentViewNode.children, 0).id
                  ELSE IF add.set THEN add.focus ELSE focusId,
                  IF back THEN Goal("end")
                  ELSE IF first \/ add.set THEN Goal("start") ELSE cursorGoal)
  /\ UNCHANGED <<searchVars, skipBlur, draggedId, isAllExpanded, crashed>>

\* handleShiftTab (lines 1461-1484)
handleShiftTab(id) ==
  /\ Enabled
  /\ id \in RowArgs
  /\ skipBlur' = TRUE
  /\ CommitResult("shiftTab", id, 0, "", shiftTabResult(tree, id, viewRootId))
  /\ UNCHANGED <<searchVars, draggedId, isAllExpanded, gen, crashed>>

\* handleEnter (lines 1486-1544)
handleEnter(id, cursor) ==
  /\ Enabled
  /\ id \in RowArgs
  /\ cursor \in CursorChoices(id)
  /\ gen < MaxGen
  /\ skipBlur' = TRUE
  /\ LET r == enterResult(tree, id, cursor, gen)
     IN /\ gen' = gen + r.made
        /\ CommitResult("enter", id, cursor, "", r)
  /\ UNCHANGED <<searchVars, draggedId, isAllExpanded, crashed>>

\* handleBackspace (lines 1546-1619); with the caret past the start it returns at once
handleBackspace(id, selectionStart) ==
  /\ Enabled
  /\ id \in RowArgs
  /\ selectionStart \in {k \in CursorChoices(id) : k <= 1}
  /\ skipBlur' = IF selectionStart > 0 THEN skipBlur ELSE TRUE
  /\ CommitResult("backspace", id, selectionStart, "",
                  IF selectionStart > 0 THEN Kept(tree) ELSE backspaceResult(tree, id, viewRootId))
  /\ UNCHANGED <<searchVars, draggedId, isAllExpanded, gen, crashed>>

\* handleTab (lines 1621-1643): a throwing updater takes the App down with it
handleTab(id) ==
  /\ Enabled
  /\ id \in RowArgs
  /\ skipBlur' = TRUE
  /\ LET r == tabResult(tree, id)
     IN /\ crashed' = r.throws
        /\ Commit("tab", id, 0, "", IF r.throws THEN "ReferenceError" ELSE "none",
                  r.r.tree, viewRootId, focusId, cursorGoal)
  /\ UNCHANGED <<searchVars, draggedId, isAllExpanded, gen>>

\* handleMoveNode (lines 1645-1701)
handleMoveNode(id, direction) ==
  /\ Enabled
  /\ id \in RowArgs
  /\ skipBlur' = TRUE
  /\ CommitResult("move", id, 0, direction, moveNodeResult(tree, id, direction, viewRootId))
  /\ UNCHANGED <<searchVars, draggedId, isAllExpanded, gen, crashed>>

\* handleArrow (lines 1703-1739), the caret being at the edge of the text
arrowFocus(id, direction) ==
  LET flatList == getFlatList(currentViewNode)
      hits == {i \in 1..Len(flatList) : flatList[i] = id}
      currentIndex == IF hits = {} THEN -1 ELSE (CHOOSE i \in hits : \A j \in hits : i <= j) - 1
  IN IF ~viewFound THEN [set |-> FALSE]
     ELSE IF direction = "up"
     THEN IF currentIndex > 0
          THEN [set |-> TRUE, focus |-> at0(flatList, currentIndex - 1), goal |-> Goal("end")]
          ELSE IF viewRootId # RootId
          THEN [set |-> TRUE, focus |-> viewRootId, goal |-> Goal("end")]
          ELSE [set |-> FALSE]
     ELSE IF currentIndex < Len(flatList) - 1
          THEN [set |-> TRUE, focus |-> at0(flatList, currentIndex + 1), goal |-> Goal("start")]
          ELSE [set |-> FALSE]
arrowTree(prev, id) ==
  LET res == findNodeAndParent(prev, id) IN
  IF res.found
  THEN replaceAt(prev, res.path, [nodeAt(prev, res.path) EXCEPT !.text = normalizeText(@)])
  ELSE prev
handleArrow(id, direction) ==
  /\ Enabled
  /\ id \in RowArgs
  /\ LET f == arrowFocus(id, direction)
     IN Commit("arrow", id, 0, direction, "none", arrowTree(tree, id), viewRootId,
               IF f.set THEN f.focus ELSE focusId, IF f.set THEN f.goal ELSE cursorGoal)
  /\ UNCHANGED <<searchVars, skipBlur, draggedId, isAllExpanded, gen, crashed>>


\* handleDragStart (lines 1832-1837)
handleDragStart(id) ==
  /\ Enabled
  /\ id \in RowArgs
  /\ draggedId' = id
  /\ skipBlur' = TRUE
  /\ Commit("dragStart", id, 0, "", "none", tree, viewRootId, focusId, cursorGoal)
  /\ UNCHANGED <<searchVars, isAllExpanded, gen, crashed>>

\* handleDragEnd (line 1838)
handleDragEnd ==
  /\ Enabled
  /\ draggedId # NoId
  /\ draggedId' = NoId
  /\ Commit("dragEnd", NoId, 0, "", "none", tree, viewRootId, focusId, cursorGoal)
  /\ UNCHANGED <<searchVars, skipBlur, isAllExpanded, gen, crashed>>

\* handleDrop (lines 1839-1861)
handleDrop(targetId) ==
  /\ Enabled
  /\ targetId \in RowArgs
  /\ LET r == dropResult(tree, draggedId, targetId)
     IN Commit("drop", targetId, 0, draggedId, r.err, r.tree, viewRootId,
               IF r.set THEN draggedId ELSE focusId, cursorGoal)
  /\ UNCHANGED <<searchVars, skipBlur, draggedId, isAllExpanded, gen, crashed>>

\* typing in the search box (line 2003) and the Search Logic effect (lines 1096-1123)
handleSearch(q) ==
  /\ SearchEnabled
  /\ viewFound
  /\ q # searchQuery
  /\ searchQuery' = q
  /\ LET blank == trim(q) = ""
         found == searchAndExpand(tree, toLowerCase(q))
     IN /\ matchIds' = IF blank THEN <<>> ELSE found.matches
        /\ currentMatchIndex' = IF blank THEN -1 ELSE 0
        /\ Commit("search", NoId, 0, q, "none", IF blank THEN tree ELSE found.node,
                  viewRootId, focusId, cursorGoal)
  /\ UNCHANGED <<skipBlur, draggedId, isAllExpanded, gen, crashed>>

\* exitSearch(targetId) (lines 1126-1136), with the effect its setSearchQuery('') triggers
exitSearch(op, targetId) ==
  /\ searchQuery' = ""
  /\ matchIds' = <<>>
  /\ currentMatchIndex' = -1
  /\ Commit(op, targetId, 0, "", "none", tree, viewRootId,
            IF targetId # NoId THEN targetId
            ELSE IF lastFocus # NoId THEN lastFocus ELSE viewRootId,
            Goal("end"))

\* handleSearchKeyDown (lines 1138-1159): Escape (and the clear button, line 2012)
handleSearchCancel ==
  /\ SearchEnabled
  /\ viewFound
  /\ exitSearch("searchCancel", NoId)
  /\ UNCHANGED <<skipBlur, draggedId, isAllExpanded, gen, crashed>>

\* handleSearchKeyDown: ArrowDown / ArrowUp
handleSearchStep(key) ==
  /\ SearchEnabled
  /\ viewFound
  /\ currentMatchIndex' =
       IF Len(matchIds) = 0 THEN currentMatchIndex
       ELSE IF key = "ArrowDown" THEN (currentMatchIndex + 1) % Len(matchIds)
       ELSE (currentMatchIndex - 1 + Len(matchIds)) % Len(matchIds)
  /\ Commit(key, NoId, 0, "", "none", tree, viewRootId, focusId, cursorGoal)
  /\ UNCHANGED <<searchQuery, matchIds, skipBlur, draggedId, isAllExpanded, gen, crashed>>

\* handleSearchKeyDown: Enter
\* (mutant: the first match is taken, wherever the navigation stands)
firstMatch(ids, index) == at0(ids, 0)
\* line 1156: matchIds[currentMatchIndex]
currentMatch(ids, index) == at0(ids, index)
handleSearchAccept ==
  /\ SearchEnabled
  /\ viewFound
  /\ IF Len(matchIds) > 0 /\ currentMatchIndex >= 0 /\ currentMatchIndex < Len(matchIds)
     THEN exitSearch("searchAccept", currentMatch(matchIds, currentMatchIndex))
     ELSE /\ Commit("searchAccept", NoId, 0, "", "none", tree, viewRootId, focusId, cursorGoal)
          /\ UNCHANGED searchVars
  /\ UNCHANGED <<skipBlur, draggedId, isAllExpanded, gen, crashed>>

\* handleHashChange (lines 1026-1037)
handleHashChange(hash) ==
  /\ Enabled
  /\ hash \in HashValues
  /\ Commit("hashChange", hash, 0, "", "none", tree,
            IF hash # "" /\ hash # viewRootId THEN hash
            ELSE IF hash = "" /\ viewRootId # RootId THEN RootId ELSE viewRootId,
            focusId, cursorGoal)
  /\ UNCHANGED <<searchVars, skipBlur, draggedId, isAllExpanded, gen, crashed>>

\* the page is loaded again after the App went down: what the Persistence effect
\* (lines 1012-1019) saved last comes back through the initializers
reload ==
  /\ crashed
  /\ LET s == load(Saved(tree, viewRootId, focusId, viewRootId))
     IN /\ tree' = s.tree
        /\ viewRootId' = s.viewRootId
        /\ focusId' = s.focusId
        /\ lastFocus' = s.lastFocus
  /\ cursorGoal' = NoGoal
  /\ searchQuery' = ""
  /\ matchIds' = <<>>
  /\ currentMatchIndex' = -1
  /\ skipBlur' = FALSE
  /\ draggedId' = NoId
  /\ isAllExpanded' = FALSE
  /\ crashed' = FALSE
  /\ Log("reload", NoId, 0, "", "none")
  /\ UNCHANGED gen

Next ==
  \/ \E id \in RowArgs : handleFocus(id)
  \/ handleHeaderClick
  \/ \E id \in RowArgs \cup {viewRootId}, newText \in TypedTexts : handleUpdateText(id, newText)
  \/ \E id \in RowArgs, pastedData \in PasteTexts : handlePaste(id, pastedData)
  \/ \E id \in RowArgs : handleBlur(id)
  \/ \E id \in RowArgs : handleToggleCollapse(id)
  \/ \E id \in RowArgs, shouldCollapse \in BOOLEAN : setCollapseState(id, shouldCollapse)
  \/ handleExpandAll
  \/ handleCollapseAll
  \/ \E id \in idSet(tree) : handleZoomIn(id)
  \/ \E id \in RowArgs : handleBulletClick(id)
  \/ handleZoomOut
  \/ handleGoHome
  \/ handleAddFirstChild
  \/ handleHeaderArrowDown
  \/ handleGlobalEnter
  \/ \E id \in RowArgs : handleShiftTab(id)
  \/ \E id \in RowArgs : \E cursor \in CursorChoices(id) : handleEnter(id, cursor)
  \/ \E id \in RowArgs : \E selectionStart \in CursorChoices(id) : handleBackspace(id, selectionStart)
  \/ \E id \in RowArgs : handleTab(id)
  \/ \E id \in RowArgs, direction \in Directions : handleMoveNode(id, direction)
  \/ \E id \in RowArgs, direction \in Directions : handleArrow(id, direction)
  \/ \E id \in RowArgs : handleDragStart(id)
  \/ handleDragEnd
  \/ \E targetId \in RowArgs : handleDrop(targetId)
  \/ \E q \in SearchQueries : handleSearch(q)
  \/ handleSearchCancel
  \/ \E key \in {"ArrowDown", "ArrowUp"} : handleSearchStep(key)
  \/ handleSearchAccept
  \/ \E hash \in HashValues : handleHashChange(hash)
  \/ reload

Spec == Init /\ [][Next]_vars

\* ---- the paste parser on its own ---------------------------------------------------
\* Clipboard texts of two to MaxLines lines, each drawn from PasteLines: the four
\* lines of a nested list, a tab-indented line ending in \r, a numbered line, a
\* line of blanks.
MaxLines == 4
PasteLines == <<"- A", "  - B", "  - C", "    - D", "\t* E\r", "1. F", " ">>
RECURSIVE joinLines(_)
joinLines(ls) == IF Len(ls) = 1 THEN ls[1] ELSE ls[1] \o "\n" \o joinLines(Tail(ls))
ParseTexts ==
  UNION {{joinLines([j \in 1..n |-> PasteLines[f[j]]]) : f \in [1..n -> 1..Len(PasteLines)]} :
           n \in 2..MaxLines}
\* a document of one row under the root, nothing focused
ParseInit ==
  LET s == load(Saved(Node(RootId, "Home", FALSE, <<Leaf("t", "t")>>), RootId, NoId, "")) IN
  /\ tree = s.tree
  /\ viewRootId = s.viewRootId
  /\ focusId = s.focusId
  /\ lastFocus = s.lastFocus
  /\ gen = s.gen
  /\ cursorGoal = NoGoal
  /\ searchQuery = ""
  /\ matchIds = <<>>
  /\ currentMatchIndex = -1
  /\ skipBlur = FALSE
  /\ draggedId = NoId
  /\ isAllExpanded = FALSE
  /\ crashed = FALSE
  /\ hist = <<>>
\* one paste per run, into the row or into a row that is gone
ParseNext == hist = <<>> /\ \E id \in RowArgs, text \in ParseTexts : handlePaste(id, text)
ParseSpec == ParseInit /\ [][ParseNext]_vars

\* ---- the repair on its own -----------------------------------------------------------
\* What localStorage may hold when the page is opened: a tree of four nodes, each id
\* missing, 'root' or 'a', so with every pattern of missing and repeated ids.
RawIds == {NoId, RootId, "a"}
RawTrees ==
  {Node(i1, "Home", FALSE, <<Node(i2, "p", c, <<Leaf(i3, "q")>>), Leaf(i4, "r")>>) :
     i1 \in RawIds, i2 \in RawIds, i3 \in RawIds, i4 \in RawIds, c \in BOOLEAN}
\* the page is not open yet; `tree` is the tree in localStorage
SanitizeInit ==
  /\ tree \in RawTrees
  /\ viewRootId = RootId
  /\ focusId = NoId
  /\ lastFocus = NoId
  /\ gen = 0
  /\ cursorGoal = NoGoal
  /\ searchQuery = ""
  /\ matchIds = <<>>
  /\ currentMatchIndex = -1
  /\ skipBlur = FALSE
  /\ draggedId = NoId
  /\ isAllExpanded = FALSE
  /\ crashed = TRUE
  /\ hist = <<>>
\* the page is opened: the useState initializers (lines 966-994) and the
\* Initialization effect (lines 1196-1212) run on what localStorage holds
mount ==
  /\ crashed /\ hist = <<>>
  /\ LET s == load(Saved(tree, viewRootId, focusId, ""))
     IN /\ tree' = s.tree
        /\ viewRootId' = s.viewRootId
        /\ focusId' = s.focusId
        /\ lastFocus' = s.lastFocus
        /\ gen' = s.gen
  /\ crashed' = FALSE
  /\ Log("mount", NoId, 0, "", "none")
  /\ UNCHANGED <<cursorGoal, searchVars, skipBlur, draggedId, isAllExpanded>>
SanitizeSpec == SanitizeInit /\ [][mount]_vars

\* ---- export and import on their own ------------------------------------------------
\* Saved documents of one to three rows in every shape, the texts single-line and
\* trimmed: empty, plain, with a blank inside, and beginning like a list marker; the
\* top node with its id or without (then repaired on load); the first row collapsed
\* or not.
ExportTexts == {"", "x", "a b", "- y", "1. z"}
ExportForests ==
  UNION {
    {<<Node("a", ta, c, <<>>)>>,
     <<Node("a", ta, c, <<>>), Leaf("b", tb)>>,
     <<Node("a", ta, c, <<Leaf("b", tb)>>)>>,
     <<Node("a", ta, c, <<>>), Leaf("b", tb), Leaf("c", tc)>>,
     <<Node("a", ta, c, <<Leaf("b", tb)>>), Leaf("c", tc)>>,
     <<Node("a", ta, c, <<>>), Node("b", tb, FALSE, <<Leaf("c", tc)>>)>>,
     <<Node("a", ta, c, <<Leaf("b", tb), Leaf("c", tc)>>)>>,
     <<Node("a", ta, c, <<Node("b", tb, FALSE, <<Leaf("c", tc)>>)>>)>>} :
    ta \in ExportTexts, tb \in ExportTexts, tc \in ExportTexts, c \in BOOLEAN}
ExportInit ==
  \E top \in {RootId, NoId}, forest \in ExportForests :
    LET s == load(Saved(Node(top, "Home", FALSE, forest), RootId, NoId,
                        IF top = RootId THEN "" ELSE GENERATE_ID(0))) IN
    /\ tree = s.tree
    /\ viewRootId = s.viewRootId
    /\ focusId = s.focusId
    /\ lastFocus = s.lastFocus
    /\ gen = s.gen
    /\ cursorGoal = NoGoal
    /\ searchQuery = ""
    /\ matchIds = <<>>
    /\ currentMatchIndex = -1
    /\ skipBlur = FALSE
    /\ draggedId = NoId
    /\ isAllExpanded = FALSE
    /\ crashed = FALSE
    /\ hist = <<>>
\* the text of the export modal (line 2091: treeToString(tree)) is copied and pasted
\* into a row, once per run
ExportNext == hist = <<>> /\ \E id \in RowArgs : handlePaste(id, treeToString(tree, 0))
ExportSpec == ExportInit /\ [][ExportNext]_vars


\* ==== properties ====================================================================
Steps == 1..Len(hist)
\* the state the i-th intent started from, and the state it left
Pre(i) == hist[i]
Post(i) ==
  IF i < Len(hist) THEN hist[i + 1]
  ELSE [tree |-> tree, viewRootId |-> viewRootId, focusId |-> focusId, cursorGoal |-> cursorGoal,
        searchQuery |-> searchQuery, matchIds |-> matchIds,
        currentMatchIndex |-> currentMatchIndex, lastFocus |-> lastFocus,
        skipBlur |-> skipBlur, draggedId |-> draggedId, gen |-> gen]

\* how often id occurs among the nodes of t
occurrences(t, id) == LET ids == idsOf(t) IN Cardinality({i \in 1..Len(ids) : ids[i] = id})
distinctIds(t) == LET ids == idsOf(t) IN Cardinality(seqToSet(ids)) = Len(ids)
\* path q lies strictly below path p
strictlyBelow(q, p) == Len(q) > Len(p) /\ SubSeq(q, 1, Len(p)) = p
isStrictDescendant(t, id, ancestorId) ==
  /\ inTree(t, id) /\ inTree(t, ancestorId)
  /\ strictlyBelow(pathOf(t, id), pathOf(t, ancestorId))
nodeOf(t, id) == nodeAt(t, pathOf(t, id))
parentOf(t, id) == nodeAt(t, Front(pathOf(t, id)))

\* C1: the ids of the document are pairwise distinct in every reachable state (the
\* document comes out of load with distinct ids, and the generator hands out fresh
\* ones); so a lookup by id yields a node with exactly that id, or nothing when the
\* id is absent.
C1_UniqueIds ==
  LET present == idSet(tree) IN
  /\ distinctIds(tree)
  /\ \A id \in present \cup {StaleId} :
       LET r == findNodeAndParent(tree, id) IN
       /\ r.found <=> id \in present
       /\ r.found => nodeAt(tree, r.path).id = id

\* C1 witness: a paste has added four generated nodes to the document
C1_Witness ==
  \E i \in Steps :
    /\ Pre(i).op = "paste"
    /\ Len(idsOf(Post(i).tree)) = Len(idsOf(Pre(i).tree)) + 4

\* C2: after an indent, an outdent, a move, a backspace or a drop the document is
\* still a tree over the same nodes: every id occurs exactly once (so under one
\* parent, and never below itself), and no id is lost or added, except the node a
\* backspace merges away.
StructuralOps == {"tab", "shiftTab", "move", "backspace", "drop"}
C2_StillATree ==
  \A i \in Steps :
    Pre(i).op \in StructuralOps =>
      /\ \A id \in idSet(Post(i).tree) : occurrences(Post(i).tree, id) = 1
      /\ idSet(Post(i).tree) \subseteq idSet(Pre(i).tree)
      /\ idSet(Pre(i).tree) \ idSet(Post(i).tree)
           \subseteq (IF Pre(i).op = "backspace" THEN {Pre(i).id} ELSE {})

\* C2 witness: an outdent has moved a node to another parent
C2_Witness ==
  \E i \in Steps :
    /\ Pre(i).op = "shiftTab"
    /\ inTree(Pre(i).tree, Pre(i).id)
    /\ parentOf(Post(i).tree, Pre(i).id).id # parentOf(Pre(i).tree, Pre(i).id).id

\* C3: a drop onto a strict descendant of the dragged node changes neither the
\* document nor the focus.
C3_DropOnDescendantRejected ==
  \A i \in Steps :
    (Pre(i).op = "drop" /\ isStrictDescendant(Pre(i).tree, Pre(i).id, Pre(i).draggedId)) =>
      /\ Post(i).tree = Pre(i).tree
      /\ Post(i).focusId = Pre(i).focusId

\* C3 witness: a node was dragged and dropped on a node of its own subtree, while the
\* focus was elsewhere
C3_Witness ==
  \E i \in Steps :
    /\ Pre(i).op = "drop"
    /\ isStrictDescendant(Pre(i).tree, Pre(i).id, Pre(i).draggedId)
    /\ Pre(i).focusId # Pre(i).draggedId

\* C4: in every reachable state the view root id names a node of the document.
C4_ViewRootPresent == inTree(tree, viewRootId)

\* C5: in every reachable state the top node of the document has the id 'root', and
\* no other node has it.
C5_RootOnTop == tree.id = RootId /\ occurrences(tree, RootId) = 1

\* C6: an intent that names an absent id (for a drop: an absent dragged node or an
\* absent target) leaves the document, the view root and the focus as they were and
\* raises no error.
AbsentIdOps == {"updateText", "toggleCollapse", "setCollapse", "enter", "backspace", "tab",
                "shiftTab", "move", "paste", "blur", "drop"}
namesAbsentId(i) ==
  IF Pre(i).op = "drop"
  THEN Pre(i).draggedId # NoId
       /\ (~inTree(Pre(i).tree, Pre(i).draggedId) \/ ~inTree(Pre(i).tree, Pre(i).id))
  ELSE ~inTree(Pre(i).tree, Pre(i).id)
leftAlone(i) ==
  /\ Post(i).tree = Pre(i).tree
  /\ Post(i).viewRootId = Pre(i).viewRootId
  /\ Post(i).focusId = Pre(i).focusId
C6_AbsentIdNoOp ==
  \A i \in Steps :
    (Pre(i).op \in AbsentIdOps /\ namesAbsentId(i)) => (leftAlone(i) /\ Pre(i).err = "none")

\* the nodes of t whose text contains the query, case-insensitively, in pre-order
directMatches(t, q) ==
  SelectSeq(preorder(t), LAMBDA n : n.text # "" /\ includes(toLowerCase(n.text), toLowerCase(q)))
\* the nodes of t strictly above the node with this id
properAncestors(t, id) ==
  LET p == pathOf(t, id) IN {nodeAt(t, SubSeq(p, 1, n)) : n \in 0..(Len(p) - 1)}

\* C7: after a search with a non-empty query, every proper ancestor of every matching
\* node is expanded, at any depth.
C7_AncestorsExpanded ==
  \A i \in Steps :
    (Pre(i).op = "search" /\ Pre(i).s # "") =>
      LET ms == directMatches(Post(i).tree, Pre(i).s) IN
      \A j \in 1..Len(ms) : \A a \in properAncestors(Post(i).tree, ms[j].id) : ~a.collapsed

\* C8: after a search with a non-empty query, the match list is exactly the ids of
\* the nodes whose own text contains the query case-insensitively, in pre-order; an
\* ancestor of a match that does not match itself is expanded and is not in the list.
C8_MatchListAndAncestors ==
  \A i \in Steps :
    (Pre(i).op = "search" /\ Pre(i).s # "") =>
      LET ms == directMatches(Post(i).tree, Pre(i).s)
          ids == [j \in 1..Len(ms) |-> ms[j].id]
      IN /\ Post(i).matchIds = ids
         /\ \A j \in 1..Len(ms) : \A a \in properAncestors(Post(i).tree, ms[j].id) :
              a.id \notin seqToSet(ids) => (~a.collapsed /\ a.id \notin seqToSet(Post(i).matchIds))

\* The match list alone, for a query that is not blank once trimmed; a blank query
\* leaves the list empty.
MatchesInPreorder ==
  \A i \in Steps :
    Pre(i).op = "search" =>
      LET ms == directMatches(Post(i).tree, Pre(i).s)
      IN Post(i).matchIds = IF trim(Pre(i).s) = "" THEN <<>> ELSE [j \in 1..Len(ms) |-> ms[j].id]

\* an Enter inside the text of a present node, followed by a Backspace at the start
\* of the node the Enter made
splitThenBackspace(i) ==
  /\ i + 1 \in Steps
  /\ Pre(i).op = "enter" /\ inTree(Pre(i).tree, Pre(i).id)
  /\ 0 < Pre(i).k /\ Pre(i).k < Len(nodeOf(Pre(i).tree, Pre(i).id).text)
  /\ Pre(i + 1).op = "backspace" /\ Pre(i + 1).id = GENERATE_ID(Pre(i).gen) /\ Pre(i + 1).k = 0
\* the node the round trip started from has its text back (with the joining space
\* where the split left no space on either side) and as many children as before
roundTripRestores(i) ==
  LET before == nodeOf(Pre(i).tree, Pre(i).id)
      T == before.text
      k == Pre(i).k
      spaced == charAt(T, k - 1) = " " \/ charAt(T, k) = " "
      after == nodeOf(Post(i + 1).tree, Pre(i).id)
  IN /\ inTree(Post(i + 1).tree, Pre(i).id)
     /\ after.text = IF spaced THEN T ELSE slice(T, 0, k) \o " " \o sliceFrom(T, k)
     /\ Len(after.children) = Len(before.children)

\* C9 as stated: the round trip restores every node, with or without children,
\* collapsed or not.
C9_RoundTripEveryNode ==
  \A i \in Steps : splitThenBackspace(i) => roundTripRestores(i)

\* C9: the round trip restores a node that shows no children (it has none, or it is
\* collapsed): the text is T again, or T with one joining space at k, the child count
\* is the original one, and the node the split made is gone.
C9_RoundTrip ==
  \A i \in Steps :
    (splitThenBackspace(i)
       /\ LET n == nodeOf(Pre(i).tree, Pre(i).id) IN n.children = <<>> \/ n.collapsed) =>
      /\ roundTripRestores(i)
      /\ ~inTree(Post(i + 1).tree, Pre(i + 1).id)

\* C9 witness: the round trip was made on a collapsed node with children, and the
\* text came back without a joining space
C9_Witness ==
  \E i \in Steps :
    /\ splitThenBackspace(i)
    /\ LET n == nodeOf(Pre(i).tree, Pre(i).id) IN
       /\ n.children # <<>> /\ n.collapsed
       /\ nodeOf(Post(i + 1).tree, Pre(i).id).text = n.text

\* C10: Enter at offset k > 0 in a present node with text T leaves that node T[0,k),
\* adds exactly one node, childless, with text T[k..) and a generated id, as the
\* first child when the node shows children and else as the next sibling, and puts
\* the focus on the new node with the cursor at its start.
C10_EnterSplits ==
  \A i \in Steps :
    (Pre(i).op = "enter" /\ inTree(Pre(i).tree, Pre(i).id) /\ Pre(i).k > 0) =>
      LET before == nodeOf(Pre(i).tree, Pre(i).id)
          T == before.text
          k == Pre(i).k
          newId == GENERATE_ID(Pre(i).gen)
          post == Post(i).tree
          after == nodeOf(post, Pre(i).id)
          siblings == parentOf(post, Pre(i).id).children
      IN /\ newId \notin idSet(Pre(i).tree)
         /\ idSet(post) = idSet(Pre(i).tree) \cup {newId}
         /\ Len(idsOf(post)) = Len(idsOf(Pre(i).tree)) + 1
         /\ after.text = slice(T, 0, k)
         /\ nodeOf(post, newId) = Leaf(newId, sliceFrom(T, k))
         /\ IF before.children # <<>> /\ ~before.collapsed
            THEN after.children = <<Leaf(newId, sliceFrom(T, k))>> \o before.children
            ELSE /\ after.children = before.children
                 /\ parentOf(post, newId).id = parentOf(post, Pre(i).id).id
                 /\ findIndex(siblings, newId) = findIndex(siblings, Pre(i).id) + 1
         /\ Post(i).focusId = newId
         /\ Post(i).cursorGoal = Goal("start")

\* C10 witness: Enter was pressed inside a node showing children, and inside a
\* collapsed node with children
C10_Witness ==
  /\ \E i \in Steps : /\ Pre(i).op = "enter" /\ inTree(Pre(i).tree, Pre(i).id) /\ Pre(i).k > 0
                      /\ LET n == nodeOf(Pre(i).tree, Pre(i).id) IN n.children # <<>> /\ ~n.collapsed
  /\ \E i \in Steps : /\ Pre(i).op = "enter" /\ inTree(Pre(i).tree, Pre(i).id) /\ Pre(i).k > 0
                      /\ LET n == nodeOf(Pre(i).tree, Pre(i).id) IN n.children # <<>> /\ n.collapsed

\* ---- backspace, indent, outdent, move, drop, enter at the start ----------------
\* the i-th intent names a node that is in the document and has a parent
onChild(i) ==
  /\ inTree(Pre(i).tree, Pre(i).id)
  /\ pathOf(Pre(i).tree, Pre(i).id) # <<>>
theNode(i) == nodeOf(Pre(i).tree, Pre(i).id)
theParent(i) == parentOf(Pre(i).tree, Pre(i).id)
theIndex(i) == findIndex(theParent(i).children, Pre(i).id)
thePrev(i) == at0(theParent(i).children, theIndex(i) - 1)
theNext(i) == at0(theParent(i).children, theIndex(i) + 1)
showsChildren(n) == n.children # <<>> /\ ~n.collapsed
childIds(n) == [j \in 1..Len(n.children) |-> n.children[j].id]
without(ids, id) == SelectSeq(ids, LAMBDA x : x # id)
\* ids with id put in at the 0-based position at
insertedAt(ids, at, id) == SubSeq(ids, 1, at) \o <<id>> \o SubSeq(ids, at + 1, Len(ids))

\* C11: Backspace at offset 0 on a node whose previous sibling shows no children
\* removes the node, leaves the sibling with its text, one space (iff both texts are
\* non-empty and there is no whitespace at the joint) and the node's text, and moves
\* the focus to the sibling with the cursor at the sibling's prior text length.
C11_MergeIntoSibling ==
  \A i \in Steps :
    (Pre(i).op = "backspace" /\ Pre(i).k = 0 /\ onChild(i) /\ theIndex(i) > 0
       /\ ~showsChildren(thePrev(i))) =>
      LET a == thePrev(i).text
          b == theNode(i).text
          joint == Len(a) > 0 /\ Len(b) > 0 /\ ~isSpace(charAt(a, Len(a) - 1)) /\ ~isSpace(charAt(b, 0))
      IN /\ ~inTree(Post(i).tree, Pre(i).id)
         /\ nodeOf(Post(i).tree, thePrev(i).id).text = a \o (IF joint THEN " " ELSE "") \o b
         /\ Post(i).focusId = thePrev(i).id
         /\ Post(i).cursorGoal = GoalAt(Len(a))

\* C12: Backspace at offset 0 on a node with children, unless it is the first child of
\* a parent that is not the view root, changes neither the document nor the focus.
C12_BackspaceWithChildrenNoOp ==
  \A i \in Steps :
    (Pre(i).op = "backspace" /\ Pre(i).k = 0 /\ onChild(i) /\ theNode(i).children # <<>>
       /\ ~(theIndex(i) = 0 /\ theParent(i).id # Pre(i).viewRootId)) =>
      /\ Post(i).tree = Pre(i).tree
      /\ Post(i).focusId = Pre(i).focusId

\* C13: Tab on a node that is not a first child makes it, subtree intact, the last
\* child of its previous sibling, expands that sibling and leaves the focus on the
\* node with the cursor at the end; Tab on a first child leaves the document as it is.
C13_TabIndents ==
  \A i \in Steps :
    (Pre(i).op = "tab" /\ onChild(i)) =>
      IF theIndex(i) = 0 THEN Post(i).tree = Pre(i).tree
      ELSE LET sibling == nodeOf(Post(i).tree, thePrev(i).id)
           IN /\ childIds(nodeOf(Post(i).tree, theParent(i).id))
                   = without(childIds(theParent(i)), Pre(i).id)
              /\ sibling.children = thePrev(i).children \o <<theNode(i)>>
              /\ ~sibling.collapsed
              /\ Post(i).focusId = Pre(i).id
              /\ Post(i).cursorGoal = Goal("end")

\* C14: Shift+Tab on a node whose parent is not the view root puts the node, subtree
\* intact, right after its former parent among the grandparent's children; the later
\* siblings stay with the former parent; the focus is on the node with the cursor at
\* the end.  When the parent is the view root the document is unchanged.
C14_ShiftTabOutdents ==
  \A i \in Steps :
    (Pre(i).op = "shiftTab" /\ onChild(i)) =>
      IF theParent(i).id = Pre(i).viewRootId THEN Post(i).tree = Pre(i).tree
      ELSE LET grandParent == parentOf(Pre(i).tree, theParent(i).id)
               parentIndex == findIndex(grandParent.children, theParent(i).id)
           IN /\ nodeOf(Post(i).tree, Pre(i).id) = theNode(i)
              /\ childIds(nodeOf(Post(i).tree, theParent(i).id))
                   = without(childIds(theParent(i)), Pre(i).id)
              /\ childIds(nodeOf(Post(i).tree, grandParent.id))
                   = insertedAt(childIds(grandParent), parentIndex + 1, Pre(i).id)
              /\ Len(idsOf(Post(i).tree)) = Len(idsOf(Pre(i).tree))
              /\ Post(i).focusId = Pre(i).id
              /\ Post(i).cursorGoal = Goal("end")

\* C14 witness: a node with later siblings was outdented from a parent that is not
\* the view root and not the last child of the grandparent
C14_Witness ==
  \E i \in Steps :
    /\ Pre(i).op = "shiftTab" /\ onChild(i)
    /\ theParent(i).id # Pre(i).viewRootId
    /\ theIndex(i) < Len(theParent(i).children) - 1
    /\ LET grandParent == parentOf(Pre(i).tree, theParent(i).id)
       IN findIndex(grandParent.children, theParent(i).id) < Len(grandParent.children) - 1

\* C15: a move up past a previous sibling appends the node to that sibling's children
\* when the sibling is expanded and has children, and swaps the two otherwise; a move
\* down past a next sibling prepends the node to that sibling's children when the
\* sibling is expanded and has children, and swaps the two otherwise.  The focus is
\* on the moved node.
C15_MovePastSibling ==
  \A i \in Steps :
    (Pre(i).op = "move" /\ onChild(i)
       /\ IF Pre(i).s = "up" THEN theIndex(i) > 0
          ELSE theIndex(i) < Len(theParent(i).children) - 1) =>
      LET up == Pre(i).s = "up"
          sibling == IF up THEN thePrev(i) ELSE theNext(i)
          ids == childIds(theParent(i))
          parentAfter == nodeOf(Post(i).tree, theParent(i).id)
          j == theIndex(i) + 1
      IN /\ IF showsChildren(sibling)
            THEN /\ childIds(parentAfter) = without(ids, Pre(i).id)
                 /\ nodeOf(Post(i).tree, sibling.id).children
                      = IF up THEN sibling.children \o <<theNode(i)>>
                        ELSE <<theNode(i)>> \o sibling.children
            ELSE parentAfter.children
                   = IF up THEN [theParent(i).children EXCEPT ![j] = sibling, ![j - 1] = theNode(i)]
                     ELSE [theParent(i).children EXCEPT ![j] = sibling, ![j + 1] = theNode(i)]
         /\ Len(idsOf(Post(i).tree)) = Len(idsOf(Pre(i).tree))
         /\ Post(i).focusId = Pre(i).id

\* C15 witness: a node was moved down into the expanded sibling below it
C15_Witness ==
  \E i \in Steps :
    /\ Pre(i).op = "move" /\ onChild(i) /\ Pre(i).s = "down"
    /\ theIndex(i) < Len(theParent(i).children) - 1
    /\ showsChildren(theNext(i))
    /\ parentOf(Post(i).tree, Pre(i).id).id = theNext(i).id

\* C16: a move up on a first child, or down on a last child, puts the node among the
\* grandparent's children right before (up) or right after (down) its former
\* parent; when the parent is the view root or the document root the document is
\* unchanged.
C16_MoveAtBoundary ==
  \A i \in Steps :
    (Pre(i).op = "move" /\ onChild(i)
       /\ IF Pre(i).s = "up" THEN theIndex(i) = 0
          ELSE theIndex(i) = Len(theParent(i).children) - 1) =>
      IF theParent(i).id = Pre(i).viewRootId \/ theParent(i).id = RootId
      THEN Post(i).tree = Pre(i).tree
      ELSE LET grandParent == parentOf(Pre(i).tree, theParent(i).id)
               parentIndex == findIndex(grandParent.children, theParent(i).id)
           IN /\ nodeOf(Post(i).tree, Pre(i).id) = theNode(i)
              /\ childIds(nodeOf(Post(i).tree, theParent(i).id))
                   = without(childIds(theParent(i)), Pre(i).id)
              /\ childIds(nodeOf(Post(i).tree, grandParent.id))
                   = insertedAt(childIds(grandParent),
                                IF Pre(i).s = "up" THEN parentIndex ELSE parentIndex + 1, Pre(i).id)
              /\ Len(idsOf(Post(i).tree)) = Len(idsOf(Pre(i).tree))

\* C16 witness: a first child was moved up out of a parent that is neither the view
\* root nor the document root
C16_Witness ==
  \E i \in Steps :
    /\ Pre(i).op = "move" /\ onChild(i) /\ Pre(i).s = "up" /\ theIndex(i) = 0
    /\ theParent(i).id # Pre(i).viewRootId /\ theParent(i).id # RootId
    /\ Post(i).tree # Pre(i).tree

\* C17: a drop of a dragged node on a different node outside its subtree makes the
\* dragged node, subtree intact, the sibling right before the target, leaves it
\* nowhere else in the document, and puts the focus on it.
C17_DropBeforeTarget ==
  \A i \in Steps :
    (Pre(i).op = "drop" /\ Pre(i).draggedId # NoId /\ Pre(i).draggedId # Pre(i).id
       /\ inTree(Pre(i).tree, Pre(i).draggedId) /\ inTree(Pre(i).tree, Pre(i).id)
       /\ pathOf(Pre(i).tree, Pre(i).draggedId) # <<>> /\ pathOf(Pre(i).tree, Pre(i).id) # <<>>
       /\ ~isStrictDescendant(Pre(i).tree, Pre(i).id, Pre(i).draggedId)) =>
      LET source == Pre(i).draggedId
          siblings == parentOf(Post(i).tree, Pre(i).id).children
      IN /\ occurrences(Post(i).tree, source) = 1
         /\ nodeOf(Post(i).tree, source) = nodeOf(Pre(i).tree, source)
         /\ parentOf(Post(i).tree, Pre(i).id).id = parentOf(Pre(i).tree, Pre(i).id).id
         /\ findIndex(siblings, source) = findIndex(siblings, Pre(i).id) - 1
         /\ Post(i).focusId = source

\* C18: Enter at offset 0 on any node, whatever its text, puts exactly one new empty
\* childless node right before it among its parent's children, unless the sibling
\* right before it is blank and childless, in which case the document is unchanged.
C18_EnterAtStartInserts ==
  \A i \in Steps :
    (Pre(i).op = "enter" /\ Pre(i).k = 0 /\ onChild(i)) =>
      IF theIndex(i) > 0 /\ trim(thePrev(i).text) = "" /\ thePrev(i).children = <<>>
      THEN Post(i).tree = Pre(i).tree
      ELSE LET newId == GENERATE_ID(Pre(i).gen)
           IN /\ nodeOf(Post(i).tree, theParent(i).id).children
                   = SubSeq(theParent(i).children, 1, theIndex(i)) \o <<Leaf(newId, "")>>
                     \o SubSeq(theParent(i).children, theIndex(i) + 1, Len(theParent(i).children))
              /\ Len(idsOf(Post(i).tree)) = Len(idsOf(Pre(i).tree)) + 1

\* C19: when Enter at offset 0 has put a blank sibling before the node, the focus is
\* on the original node with the cursor at the start, not on the new node.
C19_FocusStaysOnOriginal ==
  \A i \in Steps :
    (Pre(i).op = "enter" /\ Pre(i).k = 0 /\ onChild(i) /\ Post(i).tree # Pre(i).tree) =>
      /\ Post(i).focusId = Pre(i).id
      /\ Post(i).cursorGoal = Goal("start")

\* ---- bulk import --------------------------------------------------------------
\* the lines of a pasted text that are not blank, in order
keptLines(text) == SelectSeq(splitLines(text), LAMBDA l : trim(l) # "")
\* indentation depth of a line: its leading blanks, a tab counting as four
RECURSIVE leadingWidth(_)
leadingWidth(l) ==
  IF Len(l) > 0 /\ SubSeq(l, 1, 1) = " " THEN 1 + leadingWidth(Tail(l))
  ELSE IF Len(l) > 0 /\ SubSeq(l, 1, 1) = "\t" THEN 4 + leadingWidth(Tail(l))
  ELSE 0
\* a line without its indentation, its list marker (-, * or a number and a dot,
\* followed by blanks) and the blanks around what is left
lineText(l) ==
  LET r == trimStart(l)
      digits == CHOOSE d \in 0..Len(r) :
                  /\ \A j \in 1..d : isDigit(SubSeq(r, j, j))
                  /\ ~(d < Len(r) /\ isDigit(SubSeq(r, d + 1, d + 1)))
      m == IF Len(r) > 0 /\ SubSeq(r, 1, 1) \in {"-", "*"} THEN 1
           ELSE IF digits > 0 /\ SubSeq(r, digits + 1, digits + 1) = "." THEN digits + 1
           ELSE 0
  IN IF m > 0 /\ isSpace(SubSeq(r, m + 1, m + 1)) THEN trim(SubSeq(r, m + 1, Len(r))) ELSE trim(r)
\* the nearest line before the j-th with a strictly smaller depth, 0 when there is none
shallowerBefore(ls, j) ==
  LET above == {k \in 1..(j - 1) : leadingWidth(ls[k]) < leadingWidth(ls[j])}
  IN IF above = {} THEN 0 ELSE CHOOSE k \in above : \A h \in above : h <= k

\* C20: a pasted multi-line text gives one node per non-blank line, in line order,
\* with the line's text stripped of indentation, list marker and surrounding blanks;
\* the parent of a node is the node of the nearest earlier line of strictly smaller
\* indentation depth (a tab counting as four), and the node is top-level when there
\* is none; blank lines give no node.  '- A', '  - B', '  - C', '    - D' gives
\* A[B, C[D]].
C20_ImportParsing ==
  \A i \in Steps :
    (Pre(i).op = "paste" /\ includes(Pre(i).s, "\n") /\ onChild(i)) =>
      LET ls == keptLines(Pre(i).s)
          n == Len(ls)
          before == idSet(Pre(i).tree)
          post == Post(i).tree
          made == [j \in 1..n |-> GENERATE_ID(Pre(i).gen + j - 1)]
          siblings == nodeOf(post, theParent(i).id).children
          at == theIndex(i) + 1
      IN /\ Len(idsOf(post)) = Len(idsOf(Pre(i).tree)) + n
         /\ SelectSeq(idsOf(post), LAMBDA x : x \notin before) = made
         /\ \A j \in 1..n :
              /\ nodeOf(post, made[j]).text = lineText(ls[j])
              /\ parentOf(post, made[j]).id
                   = IF shallowerBefore(ls, j) = 0 THEN theParent(i).id
                     ELSE made[shallowerBefore(ls, j)]
         /\ Pre(i).s = "- A\n  - B\n  - C\n    - D" =>
              siblings[at + 1]
                = Node(made[1], "A", FALSE,
                       <<Leaf(made[2], "B"), Node(made[3], "C", FALSE, <<Leaf(made[4], "D")>>)>>)

\* C20 witness: the four lines of the example were pasted at a row of the document,
\* and so was a text with a tab-indented line above a line indented by two blanks
C20_Witness ==
  \E i \in Steps :
    /\ Pre(i).op = "paste" /\ onChild(i)
    /\ Pre(i).s \in {"- A\n  - B\n  - C\n    - D", "1. F\n\t* E\r\n  - C\n    - D"}
    /\ Len(idsOf(Post(i).tree)) = Len(idsOf(Pre(i).tree)) + 4

\* ---- blur-time normalization ---------------------------------------------------
\* the children of the parent as a normalizing blur of the i-th intent's node should
\* leave them: the node with its text normalized, the node gone when removeNode, the
\* sibling before it gone when removePrev
blurredSiblings(i, removeNode, removePrev) ==
  LET cs == theParent(i).children
      j == theIndex(i) + 1
      text == squeezeNewlines(trim(theNode(i).text))
  IN SubSeq(cs, 1, j - 2)
     \o (IF j > 1 /\ ~removePrev THEN <<cs[j - 1]>> ELSE <<>>)
     \o (IF removeNode THEN <<>> ELSE <<[cs[j] EXCEPT !.text = text]>>)
     \o SubSeq(cs, j + 1, Len(cs))
nowEmptyLeaf(i) == squeezeNewlines(trim(theNode(i).text)) = "" /\ theNode(i).children = <<>>
blankLeafBefore(i) == theIndex(i) > 0 /\ trim(thePrev(i).text) = "" /\ thePrev(i).children = <<>>

\* C21: a blur that is not suppressed sets the node's text to its trimmed text with
\* every run of three or more newlines replaced by two, removes the node if its text
\* is then empty and it has no children, and additionally removes the sibling right
\* before the node if that sibling has blank text and no children; nothing else in
\* the document is removed or changed.
C21_BlurNormalizes ==
  \A i \in Steps :
    (Pre(i).op = "blur" /\ ~Pre(i).skipBlur /\ onChild(i)) =>
      Post(i).tree = withChildren(Pre(i).tree, Front(pathOf(Pre(i).tree, Pre(i).id)),
                                  blurredSiblings(i, nowEmptyLeaf(i), blankLeafBefore(i)))

\* the intents that set the suppress-normalization flag
SuppressingOps == {"enter", "backspace", "tab", "shiftTab", "move", "paste", "dragStart"}
\* the j-th intent may be the blur an operation causes itself: the intent before it
\* set the flag and rearranged the rows or sent the focus elsewhere
blurOfOperation(j) ==
  /\ j > 1
  /\ Pre(j - 1).op \in SuppressingOps
  /\ (Post(j - 1).focusId # Pre(j - 1).focusId \/ Post(j - 1).tree # Pre(j - 1).tree)
\* the blur of the j-th intent normalized its row: the row is gone, or its text is
\* trimmed with its runs of newlines cut to two
normalized(j) ==
  \/ ~inTree(Post(j).tree, Pre(j).id)
  \/ nodeOf(Post(j).tree, Pre(j).id).text = squeezeNewlines(trim(theNode(j).text))

\* C22: the suppress-normalization flag is one-shot and scoped to the operation that
\* set it: whether or not that operation changed the document or caused a blur, the
\* flag suppresses at most the blur of that operation, so every blur caused by a
\* later, unrelated loss of focus is normalized.
C22_SuppressionIsOneShot ==
  \A j \in Steps :
    (Pre(j).op = "blur" /\ onChild(j) /\ ~blurOfOperation(j)) => normalized(j)

\* ---- collapse ----------------------------------------------------------------------
\* the flag the i-th intent, a toggle or a set, asks for
collapsesTo(i) == IF Pre(i).op = "toggleCollapse" THEN ~theNode(i).collapsed ELSE Pre(i).k = 1

\* C23: toggleCollapse(id) and setCollapse(id, b) change nothing but the collapsed flag
\* of that node; the focus moves, to the node itself with the cursor at the start,
\* exactly when the focused node is a strict descendant of the node and the intent
\* collapses it; when the intent expands the node, or the focused node is not a
\* strict descendant, the focus is unchanged.
C23_CollapseOneNode ==
  \A i \in Steps :
    (Pre(i).op \in {"toggleCollapse", "setCollapse"} /\ inTree(Pre(i).tree, Pre(i).id)) =>
      /\ Post(i).tree = replaceAt(Pre(i).tree, pathOf(Pre(i).tree, Pre(i).id),
                                  [theNode(i) EXCEPT !.collapsed = collapsesTo(i)])
      /\ IF collapsesTo(i) /\ isStrictDescendant(Pre(i).tree, Pre(i).focusId, Pre(i).id)
         THEN Post(i).focusId = Pre(i).id /\ Post(i).cursorGoal = Goal("start")
         ELSE Post(i).focusId = Pre(i).focusId /\ Post(i).cursorGoal = Pre(i).cursorGoal

\* the ids from the top of t down to the node with this id
idsDownTo(t, id) == LET p == pathOf(t, id) IN [k \in 1..(Len(p) + 1) |-> nodeAt(t, SubSeq(p, 1, k - 1)).id]
\* the rows shown in state st: the view root's children and what they show
rowsOf(st) == renderNodes(nodeOf(st.tree, st.viewRootId).children)

\* C24: collapseAll sets the collapsed flag of every node but the document root, which
\* stays expanded, and changes nothing else in the document; if the focused node was
\* a strict descendant of the view root, the focus is afterwards on the nearest of
\* the node and its ancestors that is still shown under the view root, with the
\* cursor at the start.
C24_CollapseAll ==
  \A i \in Steps :
    Pre(i).op = "collapseAll" =>
      LET pre == preorder(Pre(i).tree)
          post == preorder(Post(i).tree)
          down == idsDownTo(Pre(i).tree, Pre(i).focusId)
          shown == {k \in 1..Len(down) : down[k] \in seqToSet(rowsOf(Post(i)))}
      IN /\ Len(post) = Len(pre)
         /\ \A j \in 1..Len(pre) :
              /\ post[j].id = pre[j].id /\ post[j].text = pre[j].text
              /\ Len(post[j].children) = Len(pre[j].children)
              /\ post[j].collapsed = (j # 1)
         /\ isStrictDescendant(Pre(i).tree, Pre(i).focusId, Pre(i).viewRootId) =>
              /\ shown # {}
              /\ \A k \in shown : (\A h \in shown : h <= k) => Post(i).focusId = down[k]
              /\ Post(i).cursorGoal = Goal("start")

\* C24 witness: collapseAll took the focus from a node two levels or more below the
\* view root, under a node that was expanded
C24_Witness ==
  \E i \in Steps :
    /\ Pre(i).op = "collapseAll"
    /\ isStrictDescendant(Pre(i).tree, Pre(i).focusId, Pre(i).viewRootId)
    /\ ~parentOf(Pre(i).tree, Pre(i).focusId).collapsed
    /\ parentOf(Pre(i).tree, Pre(i).focusId).id # Pre(i).viewRootId
    /\ Post(i).focusId # Pre(i).focusId

\* C25: collapseAll followed by expandAll, and expandAll followed by collapseAll, leave
\* every node but the document root with the collapsed flag it had before the first
\* of the two; the root is not collapsed.
C25_AllRoundTrip ==
  \A i \in Steps :
    (i + 1 \in Steps /\ <<Pre(i).op, Pre(i + 1).op>>
                          \in {<<"collapseAll", "expandAll">>, <<"expandAll", "collapseAll">>}) =>
      LET before == preorder(Pre(i).tree)
          after == preorder(Post(i + 1).tree)
      IN /\ Len(after) = Len(before)
         /\ ~after[1].collapsed
         /\ \A j \in 2..Len(before) : after[j].collapsed = before[j].collapsed

\* ---- search navigation -----------------------------------------------------------
\* the intents i .. i + n - 1 are all presses of this key
pressed(key, i, n) == \A j \in i..(i + n - 1) : j \in Steps /\ Pre(j).op = key
\* what the keys ArrowDown and ArrowUp of the search box do, given the query counts
\* as a query: the index goes round the matches, and stays put when there are none
navigationWraps ==
  /\ Len(matchIds) > 0 => currentMatchIndex \in 0..(Len(matchIds) - 1)
  /\ \A i \in Steps :
       LET n == Len(Pre(i).matchIds)
           c == Pre(i).currentMatchIndex
       IN /\ (Pre(i).op = "ArrowDown" /\ n > 0) => Post(i).currentMatchIndex = (c + 1) % n
          /\ (Pre(i).op = "ArrowUp" /\ n > 0) => Post(i).currentMatchIndex = (c - 1 + n) % n
          /\ (Pre(i).op \in {"ArrowDown", "ArrowUp"} /\ n = 0) =>
               /\ Post(i).currentMatchIndex = c
               /\ Post(i).matchIds = Pre(i).matchIds
               /\ leftAlone(i)
          /\ (n > 0 /\ pressed("ArrowDown", i, 1) /\ pressed("ArrowUp", i + 1, 1)) =>
               Post(i + 1).currentMatchIndex = c
          /\ (n > 0 /\ pressed("ArrowDown", i, n)) => Post(i + n - 1).currentMatchIndex = c

\* C26: after every search with a new non-empty query the current index is 0;
\* searchNext and searchPrev take the index i to (i + 1) mod n and (i - 1 + n) mod n,
\* n > 0 being the number of matches, so the index stays within 0..n-1, searchNext
\* then searchPrev is the identity, and n times searchNext comes back to the match
\* it started from; with no matches both leave everything as it is.
C26_IndexResetsAndWraps ==
  /\ \A i \in Steps : (Pre(i).op = "search" /\ Pre(i).s # "") => Post(i).currentMatchIndex = 0
  /\ navigationWraps

\* the search box is as it is when no search is under way
searchIdle(st) == st.searchQuery = "" /\ st.matchIds = <<>> /\ st.currentMatchIndex = -1

\* C27: searchAccept with at least one match leaves the search mode (query empty, no
\* matches, index reset) and puts the focus on the match the index stood on, with the
\* cursor at the end.
C27_AcceptFocusesMatch ==
  \A i \in Steps :
    (Pre(i).op = "searchAccept" /\ Len(Pre(i).matchIds) > 0) =>
      /\ searchIdle(Post(i))
      /\ Post(i).focusId = Pre(i).matchIds[Pre(i).currentMatchIndex + 1]
      /\ Post(i).cursorGoal = Goal("end")

\* C27 witness: a match other than the first was accepted
C27_Witness ==
  \E i \in Steps :
    /\ Pre(i).op = "searchAccept"
    /\ Pre(i).currentMatchIndex > 0
    /\ Post(i).focusId # Pre(i).matchIds[1]

\* the node that held the focus last when the i-th intent started, NoId when none
\* ever did (the search box does not take the logical focus from a node)
heldFocusLast(i) ==
  LET held == {j \in 1..i : Pre(j).focusId # NoId}
  IN IF held = {} THEN NoId ELSE Pre(CHOOSE j \in held : \A h \in held : h <= j).focusId

\* C28: searchCancel leaves the search mode and puts the focus on the node that held
\* the focus last before the search, or on the view root if no node has held it.
C28_CancelRestoresFocus ==
  \A i \in Steps :
    Pre(i).op = "searchCancel" =>
      /\ searchIdle(Post(i))
      /\ Post(i).focusId = IF heldFocusLast(i) # NoId THEN heldFocusLast(i) ELSE Pre(i).viewRootId

\* C29: when the URL fragment changes to an id that is in the document, the view root
\* becomes that id; when it changes to an id that is not in the document, the view
\* root becomes the document root.
C29_FragmentSetsView ==
  \A i \in Steps :
    (Pre(i).op = "hashChange" /\ Pre(i).id # "") =>
      Post(i).viewRootId = IF inTree(Pre(i).tree, Pre(i).id) THEN Pre(i).id ELSE RootId

\* ---- repair on load ---------------------------------------------------------------
\* C30: the repair of a loaded tree gives a tree of the same shape, child order, texts
\* and collapsed flags, in which every node has a non-empty id and the ids are
\* pairwise distinct; a node keeps its id iff the id is non-empty and has not occurred
\* earlier in pre-order, and gets a fresh id otherwise; no node is dropped.
C30_RepairOnLoad ==
  \A i \in Steps :
    Pre(i).op = "mount" =>
      LET raw == preorder(Pre(i).tree)
          clean == preorder(Post(i).tree)
          keeps == [j \in 1..Len(raw) |->
                      raw[j].id # NoId /\ \A k \in 1..(j - 1) : raw[k].id # raw[j].id]
      IN /\ Len(clean) = Len(raw)
         /\ \A j \in 1..Len(raw) :
              /\ clean[j].text = raw[j].text
              /\ clean[j].collapsed = raw[j].collapsed
              /\ Len(clean[j].children) = Len(raw[j].children)
              /\ clean[j].id # NoId
              /\ (clean[j].id = raw[j].id) <=> keeps[j]
              /\ ~keeps[j] => \A k \in 1..Len(raw) : raw[k].id # clean[j].id
              /\ \A k \in 1..Len(raw) : k # j => clean[k].id # clean[j].id

\* C30 witness: a tree with a repeated id and a missing id was repaired; the first
\* holder of the repeated id kept it
C30_Witness ==
  \E i \in Steps :
    /\ Pre(i).op = "mount"
    /\ idsOf(Pre(i).tree) = <<RootId, "a", NoId, "a">>
    /\ idsOf(Post(i).tree) = <<RootId, "a", GENERATE_ID(0), GENERATE_ID(1)>>

\* ---- backspace on blank rows ---------------------------------------------------------
blankRows(t) == LET l == preorder(t) IN Cardinality({j \in 1..Len(l) : trim(l[j].text) = ""})
backspaceAtStart(i) == Pre(i).op = "backspace" /\ Pre(i).k = 0
\* the i-th intent is a Backspace at offset 0 on a blank childless node whose previous
\* sibling is blank and childless too
onBlankPair(i) ==
  /\ backspaceAtStart(i) /\ onChild(i)
  /\ trim(theNode(i).text) = "" /\ theNode(i).children = <<>>
  /\ theIndex(i) > 0
  /\ trim(thePrev(i).text) = "" /\ thePrev(i).children = <<>>

\* C31: Backspace at offset 0 on a blank childless node whose previous sibling is also
\* blank and childless removes exactly that node and creates none, and leaves the
\* focus on the previous sibling; no Backspace at offset 0, repeated on the focused
\* node or not, increases the number of nodes or the number of blank rows.
C31_BlankPairBackspace ==
  \A i \in Steps :
    /\ onBlankPair(i) =>
         /\ idsOf(Post(i).tree) = without(idsOf(Pre(i).tree), Pre(i).id)
         /\ \A id \in idSet(Post(i).tree) \ {thePrev(i).id} :
              /\ nodeOf(Post(i).tree, id).text = nodeOf(Pre(i).tree, id).text
              /\ childIds(nodeOf(Post(i).tree, id)) = without(childIds(nodeOf(Pre(i).tree, id)), Pre(i).id)
         /\ isBlankLeaf(nodeOf(Post(i).tree, thePrev(i).id))
         /\ Post(i).focusId = thePrev(i).id
    /\ backspaceAtStart(i) =>
         /\ Len(idsOf(Post(i).tree)) <= Len(idsOf(Pre(i).tree))
         /\ blankRows(Post(i).tree) <= blankRows(Pre(i).tree)

\* C31 witness: Backspace removed the second of two blank rows, and was pressed again
\* on the row that then had the focus
C31_Witness ==
  \E i \in Steps :
    /\ onBlankPair(i)
    /\ i + 1 \in Steps /\ backspaceAtStart(i + 1) /\ Pre(i + 1).id = Post(i).focusId

\* ---- navigation ------------------------------------------------------------------
\* position (from 1) of id among the rows, 0 when it is not among them
rowIndex(rows, id) ==
  IF \E j \in 1..Len(rows) : rows[j] = id THEN CHOOSE j \in 1..Len(rows) : rows[j] = id ELSE 0

\* C32: an arrow up from the first of the visible rows moves the focus to the view
\* root, whatever the view root is; an arrow down from the last row leaves the focus
\* where it was; from any other row the focus moves to the row before (up) or after
\* (down) it in the visible order.
C32_ArrowNavigation ==
  \A i \in Steps :
    (Pre(i).op = "arrow" /\ inTree(Pre(i).tree, Pre(i).viewRootId)
       /\ rowIndex(rowsOf(Pre(i)), Pre(i).id) > 0) =>
      LET rows == rowsOf(Pre(i))
          j == rowIndex(rows, Pre(i).id)
      IN Post(i).focusId =
           IF Pre(i).s = "up" THEN (IF j = 1 THEN Pre(i).viewRootId ELSE rows[j - 1])
           ELSE (IF j = Len(rows) THEN Pre(i).focusId ELSE rows[j + 1])

\* depth of the node with this id: the number of its proper ancestors
depth(t, id) == Len(pathOf(t, id))

\* C33: zoomOut sets the view root to the parent of the current view root and puts
\* the focus on the former view root, does nothing at root, and never changes the
\* document; so from any view root, zoomOut repeated as often as the view root is
\* deep ends with viewRootId = root, and no fewer do.
C33_ZoomOut ==
  \A i \in Steps :
    Pre(i).op = "zoomOut" =>
      /\ Post(i).tree = Pre(i).tree
      /\ IF Pre(i).viewRootId = RootId
         THEN Post(i).viewRootId = Pre(i).viewRootId /\ Post(i).focusId = Pre(i).focusId
         ELSE /\ findNodeAndParent(Pre(i).tree, Pre(i).viewRootId).hasParent
              /\ Post(i).viewRootId = parentOf(Pre(i).tree, Pre(i).viewRootId).id
              /\ Post(i).focusId = Pre(i).viewRootId
      /\ inTree(Pre(i).tree, Pre(i).viewRootId) =>
           LET d == depth(Pre(i).tree, Pre(i).viewRootId)
           IN (d > 0 /\ pressed("zoomOut", i, d)) =>
                /\ Post(i + d - 1).viewRootId = RootId
                /\ \A j \in i..(i + d - 2) : Post(j).viewRootId # RootId

\* the document without its collapsed flags: ids, texts, parents and sibling positions
RECURSIVE skeleton(_)
skeleton(n) ==
  [id |-> n.id, text |-> n.text, children |-> [k \in 1..Len(n.children) |-> skeleton(n.children[k])]]
\* the node with this id has a strict descendant whose text contains the query
aboveMatch(t, id, q) ==
  LET ms == directMatches(t, q)
  IN \E j \in 1..Len(ms) : isStrictDescendant(t, ms[j].id, id)

\* C34: a search changes no node's id, text, parent or sibling position, and the only
\* collapsed flags it changes are flags it clears on proper ancestors of matching
\* nodes: a collapsed node with no matching descendant stays collapsed, and no node
\* becomes collapsed.
C34_SearchFrame ==
  \A i \in Steps :
    Pre(i).op = "search" =>
      /\ skeleton(Post(i).tree) = skeleton(Pre(i).tree)
      /\ \A id \in idSet(Pre(i).tree) :
           LET before == nodeOf(Pre(i).tree, id).collapsed
               after == nodeOf(Post(i).tree, id).collapsed
           IN /\ after => before
              /\ (before /\ ~aboveMatch(Pre(i).tree, id, Pre(i).s)) => after
              /\ before # after => aboveMatch(Pre(i).tree, id, Pre(i).s)

\* C34 witness: a search cleared the flag of an ancestor of a match and left another
\* collapsed node, one with children but no match below it, collapsed
C34_Witness ==
  \E i \in Steps :
    /\ Pre(i).op = "search"
    /\ \E id \in idSet(Pre(i).tree) :
         nodeOf(Pre(i).tree, id).collapsed /\ ~nodeOf(Post(i).tree, id).collapsed
    /\ \E id \in idSet(Pre(i).tree) :
         /\ nodeOf(Pre(i).tree, id).collapsed /\ nodeOf(Post(i).tree, id).collapsed
         /\ nodeOf(Pre(i).tree, id).children # <<>>

\* the intents that move a node, and the node the intent at step i moves
MovingOps == {"tab", "shiftTab", "move", "drop"}
movedId(i) == IF Pre(i).op = "drop" THEN Pre(i).s ELSE Pre(i).id

\* C35: tab, shiftTab, moveNode and dragDrop never create, delete or duplicate a node:
\* the ids of the document, each once, every node's text, and the moved node's own
\* subtree are the same before and after, and the other children of every parent
\* keep their relative order.
C35_MoveFrame ==
  \A i \in Steps :
    Pre(i).op \in MovingOps =>
      /\ idSet(Post(i).tree) = idSet(Pre(i).tree)
      /\ Len(idsOf(Post(i).tree)) = Len(idsOf(Pre(i).tree))
      /\ \A id \in idSet(Pre(i).tree) :
           /\ nodeOf(Post(i).tree, id).text = nodeOf(Pre(i).tree, id).text
           /\ without(childIds(nodeOf(Post(i).tree, id)), movedId(i))
                = without(childIds(nodeOf(Pre(i).tree, id)), movedId(i))
      /\ inTree(Pre(i).tree, movedId(i)) =>
           nodeOf(Post(i).tree, movedId(i)) = nodeOf(Pre(i).tree, movedId(i))

\* C35 witness: a node with children of its own got a new parent
C35_Witness ==
  \E i \in Steps :
    /\ Pre(i).op \in MovingOps
    /\ onChild(i)
    /\ theNode(i).children # <<>>
    /\ parentOf(Post(i).tree, Pre(i).id).id # theParent(i).id

\* the ids of the nodes strictly below the view root in state st
zoomedScope(st) == {id \in idSet(st.tree) : isStrictDescendant(st.tree, id, st.viewRootId)}
\* the structural edits of a row: Backspace counts with the caret at offset 0, a drop
\* with its target in the subtree of the view root
scopedEdit(i) ==
  \/ Pre(i).op \in {"tab", "shiftTab", "move"}
  \/ Pre(i).op = "backspace" /\ Pre(i).k = 0
  \/ Pre(i).op = "drop" /\ (Pre(i).id = Pre(i).viewRootId \/ Pre(i).id \in zoomedScope(Pre(i)))

\* C36: an edit never moves a node out of the zoomed scope: a node strictly below the
\* view root is, after tab, shiftTab, moveNode, Backspace at offset 0 or a drop onto a
\* target inside the view root's subtree, still strictly below the view root, if it
\* still exists.
C36_StaysInScope ==
  \A i \in Steps :
    scopedEdit(i) =>
      \A id \in zoomedScope(Pre(i)) :
        inTree(Post(i).tree, id) => id \in zoomedScope(Post(i))

\* C36 witness: zoomed in, an edit gave a node of the scope another parent
C36_Witness ==
  \E i \in Steps :
    /\ scopedEdit(i)
    /\ Pre(i).viewRootId # RootId
    /\ \E id \in zoomedScope(Pre(i)) :
         /\ inTree(Post(i).tree, id)
         /\ parentOf(Post(i).tree, id).id # parentOf(Pre(i).tree, id).id

\* the focus of state st is on nothing or on a node of the document
focusPresent(st) == st.focusId = NoId \/ inTree(st.tree, st.focusId)

\* C37: after every intent, its deferred focus included, focusId is null or the id of
\* a node of the document; in particular after a blur that deleted an empty node,
\* after a Backspace merge, and after searchAccept and searchCancel.
C37_FocusPresent ==
  \A i \in Steps : focusPresent(Pre(i)) => focusPresent(Post(i))

\* C38: in every reachable state the flattened navigation order of the view root is,
\* in pre-order, exactly the rows of the outline body: every child of the view root
\* and, recursively, the children of each shown node that is not collapsed, whatever
\* the view root's own collapsed flag.
C38_FlatListIsRows ==
  viewFound => getFlatList(currentViewNode) = renderedRows

\* step i is moveNode in direction d on a node and changes the document, and the next
\* step is moveNode on the same node in direction e
movedThenBack(i, d, e) ==
  /\ i + 1 \in Steps
  /\ Pre(i).op = "move" /\ Pre(i).s = d
  /\ Post(i).tree # Pre(i).tree
  /\ Pre(i + 1).op = "move" /\ Pre(i + 1).s = e /\ Pre(i + 1).id = Pre(i).id

\* C39: a moveNode up that changes the document, followed by moveNode down on the same
\* node, restores exactly the previous document, and likewise down then up, wherever
\* the node is: swapped with a leaf or collapsed sibling, absorbed into an expanded
\* sibling with children, or spliced into the grandparent at the boundary.
C39_MoveRoundTrip ==
  \A i \in Steps :
    (movedThenBack(i, "up", "down") \/ movedThenBack(i, "down", "up")) =>
      Post(i + 1).tree = Pre(i).tree

\* texts and child order of a forest, without ids and flags
RECURSIVE shapeOf(_)
shapeOf(n) == [text |-> n.text, children |-> [k \in 1..Len(n.children) |-> shapeOf(n.children[k])]]
forestShape(cs) == [k \in 1..Len(cs) |-> shapeOf(cs[k])]
\* every text of the tree is a single line without blanks at either end
plainTexts(t) ==
  \A k \in 1..Len(preorder(t)) :
    LET text == preorder(t)[k].text IN ~includes(text, "\n") /\ trim(text) = text
\* the forest parseTextToNodes makes of the export of the document of state st
reimported(st) == parseTextToNodes(treeToString(st.tree, 0), st.gen).rootNodes
RECURSIVE forestNodes(_)
forestNodes(cs) == IF cs = <<>> THEN <<>> ELSE preorder(Head(cs)) \o forestNodes(Tail(cs))

\* C40: export then import is a round trip on structure: for a document whose texts
\* are single-line and trimmed, parsing the text treeToString produces gives a forest
\* with the shape, child order and texts of the children of the exported root, with
\* fresh ids and every collapsed flag reset.
C40_ExportImport ==
  \A i \in Steps :
    (Pre(i).op = "paste" /\ Pre(i).s = treeToString(Pre(i).tree, 0) /\ plainTexts(Pre(i).tree)) =>
      LET forest == reimported(Pre(i))
          made == forestNodes(forest)
      IN /\ forestShape(forest) = forestShape(Pre(i).tree.children)
         /\ \A k \in 1..Len(made) : ~made[k].collapsed /\ ~inTree(Pre(i).tree, made[k].id)

====
